---- MODULE Spec2Model ----
(***************************************************************************)
(* Verification model of the c-raylib libraries.                           *)
(*                                                                         *)
(* Part 1: the fixed integer vector (libs/data_structures/src/vector.c).   *)
(* The Vector struct is the record vec = [ptr, data, size, capacity].      *)
(* data is the heap block behind vec->data: a sequence with one entry per  *)
(* int slot the allocator really handed out, so Len(data) is the room of   *)
(* the block, which the code never stores and which can differ from        *)
(* capacity when the byte count wraps in size_t.                           *)
(***************************************************************************)
EXTENDS Integers, Sequences, FiniteSets, TLC

\* ------------------------------------------------------------------ bounds
\* Width of size_t in the model (the build has 64; the arithmetic is the
\* same modulo 2^SizeBits).
SizeBits == 6
\* The client stops pushing when the vector holds MaxSize elements.
MaxSize == 5
\* Indices the client passes to vector_get / vector_set: 0..MaxIndex.
MaxIndex == 6
\* In SpecWrap the client pushes up to the first size at which growth wraps.
WrapSlack == 1
\* In SpecLife the client stops pushing at LifeMaxSize elements.
LifeMaxSize == 3
\* In SpecHysteresis the client stops pushing at HysteresisMaxSize elements.
HysteresisMaxSize == 10
\* math_factorial and math_fibonacci are called with every n of
\* -MaxArg..MaxArg and -MaxArg..2*MaxArg, and with both ends of int.
MaxArg == 60
\* math_power is called with every exponent of -2..MaxExp, and with both
\* ends of int.
MaxExp == 66
\* math_gcd and math_lcm are called with every pair of operands of
\* -MaxOperand..MaxOperand, and with the large operands listed with them.
MaxOperand == 12
\* math_is_prime is called with every n of -MaxOperand..MaxPrime, and with
\* the large arguments listed with them.
MaxPrime == 130
\* The client of the generic container stops adding elements when a
\* container holds MaxGSize of them.
MaxGSize == 3
\* The client that takes a copy stops adding elements when a container
\* holds MaxCopySize of them.
MaxCopySize == 2

\* --------------------------------------------------------- program constants
DEFAULT_CAPACITY == 8
GROWTH_FACTOR == 2
SizeofInt == 4
\* Token for the indeterminate content of memory that was never written
\* (a malloc'ed slot, the caller's `int value;`).  It is not in Values.
Uninit == 0

SIZE_MOD == 2 ^ SizeBits
\* The int values the client stores.
Values == {1, 2}
\* Token for every int that is neither Uninit nor one the client stores.
OtherInt == -1
\* What a read outside the block behind data may yield (vector.c lines 74,
\* 97): any int, be it a value the client knows, the content of memory
\* never written, or something else.
Indeterminate == Values \cup {Uninit, OtherInt}
\* What malloc / realloc may do: hand out a block, return NULL and leave the
\* old block alone, or (realloc with a byte count of 0 only) return NULL
\* after releasing the old block.
AllocOutcomes == {"ok", "null", "freed"}

\* size_t arithmetic
SzMul(a, b) == (a * b) % SIZE_MOD
SzAdd(a, b) == (a + b) % SIZE_MOD
SzSub(a, b) == (a - b + SIZE_MOD) % SIZE_MOD

NULL == [ptr |-> "NULL", data |-> <<>>, size |-> 0, capacity |-> 0]

\* A fresh block of n int slots, none written.
Malloc(n) == [i \in 1..n |-> Uninit]
\* realloc: the first min(old, new) slots keep their content.
Realloc(d, n) == [i \in 1..n |-> IF i <= Len(d) THEN d[i] ELSE Uninit]

\* Whether data[index] lies outside the block behind data.
OutOfBlock(v, index) == index >= Len(v.data)

\* ---------------------------------------------------------------- vector.c
\* Each function is an operator from the vector (and the arguments and the
\* outcome the allocator or an out-of-block access chooses) to the record
\* [vec, ret, out, crash]: the vector after the call, the return code, the
\* content of the caller's output variable, and whether the process died.

\* vector_create without the substitution of lines 17-19.
vector_create_NoDefault(initial_capacity, a) ==
  LET bytes == SzMul(initial_capacity, SizeofInt)
  IN  IF a = "ok"
        THEN [ptr |-> "heap", data |-> Malloc(bytes \div SizeofInt),
              size |-> 0, capacity |-> initial_capacity]
        ELSE NULL

vector_create(initial_capacity, a) ==
  LET cap   == IF initial_capacity = 0 THEN DEFAULT_CAPACITY ELSE initial_capacity
      bytes == SzMul(cap, SizeofInt)
  IN  IF a = "ok"
        THEN [ptr |-> "heap", data |-> Malloc(bytes \div SizeofInt),
              size |-> 0, capacity |-> cap]
        ELSE NULL

\* vector_resize that stores realloc's result straight into vec->data, so a
\* refused reallocation loses the block.
vector_resize_LosesBlock(v, new_capacity, a) ==
  LET bytes == SzMul(new_capacity, SizeofInt)
  IN  IF a = "ok"
        THEN [ret |-> 0,
              vec |-> [v EXCEPT !.data = Realloc(v.data, bytes \div SizeofInt),
                                !.capacity = new_capacity]]
        ELSE [ret |-> -1, vec |-> [v EXCEPT !.data = <<>>]]

\* vector_resize with line 55 left out: the block is replaced, capacity is not.
vector_resize_KeepsCapacity(v, new_capacity, a) ==
  LET bytes == SzMul(new_capacity, SizeofInt)
  IN  IF a = "ok"
        THEN [ret |-> 0,
              vec |-> [v EXCEPT !.data = Realloc(v.data, bytes \div SizeofInt)]]
        ELSE [ret |-> -1, vec |-> v]

vector_resize(v, new_capacity, a) ==
  LET bytes == SzMul(new_capacity, SizeofInt)
  IN  IF a = "ok"
        THEN [ret |-> 0,
              vec |-> [v EXCEPT !.data = Realloc(v.data, bytes \div SizeofInt),
                                !.capacity = new_capacity]]
        ELSE IF a = "freed" /\ bytes = 0
          THEN [ret |-> -1, vec |-> [v EXCEPT !.data = <<>>]]
          ELSE [ret |-> -1, vec |-> v]

\* Whether vector_push has to call vector_resize first.
PushGrows(v) == v.ptr # "NULL" /\ v.size >= v.capacity

\* vector_push that grows by one slot instead of doubling.
vector_push_GrowsByOne(v, value, a, crash) ==
  IF v.ptr = "NULL" THEN [vec |-> v, ret |-> -1, crash |-> FALSE]
  ELSE
    LET r == IF v.size >= v.capacity
               THEN vector_resize(v, SzAdd(v.capacity, 1), a)
               ELSE [ret |-> 0, vec |-> v]
        w == r.vec
    IN  IF r.ret # 0 THEN [vec |-> w, ret |-> -1, crash |-> FALSE]
        ELSE [vec |-> [w EXCEPT !.data[w.size + 1] = value,
                                !.size = SzAdd(w.size, 1)],
              ret |-> 0, crash |-> FALSE]

\* vector_push that counts the element before it knows the growth worked.
vector_push_CountsFirst(v, value, a, crash) ==
  IF v.ptr = "NULL" THEN [vec |-> v, ret |-> -1, crash |-> FALSE]
  ELSE
    LET r == IF v.size >= v.capacity
               THEN vector_resize(v, SzMul(v.capacity, GROWTH_FACTOR), a)
               ELSE [ret |-> 0, vec |-> v]
        w == r.vec
    IN  IF r.ret # 0
          THEN [vec |-> [w EXCEPT !.size = SzAdd(w.size, 1)], ret |-> -1,
                crash |-> FALSE]
          ELSE [vec |-> [w EXCEPT !.data[w.size + 1] = value,
                                  !.size = SzAdd(w.size, 1)],
                ret |-> 0, crash |-> FALSE]

vector_push(v, value, a, crash) ==
  IF v.ptr = "NULL" THEN [vec |-> v, ret |-> -1, crash |-> FALSE]
  ELSE
    LET r == IF v.size >= v.capacity
               THEN vector_resize(v, SzMul(v.capacity, GROWTH_FACTOR), a)
               ELSE [ret |-> 0, vec |-> v]
        w == r.vec
    IN  IF r.ret # 0 THEN [vec |-> w, ret |-> -1, crash |-> FALSE]
        ELSE IF OutOfBlock(w, w.size)
          THEN [vec |-> [w EXCEPT !.size = SzAdd(w.size, 1)], ret |-> 0,
                crash |-> crash]
          ELSE [vec |-> [w EXCEPT !.data[w.size + 1] = value,
                                  !.size = SzAdd(w.size, 1)],
                ret |-> 0, crash |-> FALSE]

\* The shrink test that already fires at half of the capacity.
PopShrinks_AtHalf(n, capacity) ==
  n <= capacity \div 2 /\ capacity > DEFAULT_CAPACITY

\* The shrink test with the quarter mistaken for the half.
PopShrinks_BelowHalf(n, capacity) ==
  n < capacity \div 2 /\ capacity > DEFAULT_CAPACITY

\* Whether vector_pop goes on to shrink once size has been decremented to n.
PopShrinks(n, capacity) ==
  n < capacity \div 4 /\ capacity > DEFAULT_CAPACITY

\* vector_pop that reads the departing element before decrementing size.
vector_pop_ReadsFirst(v, value, o, a, crash, g) ==
  IF v.ptr = "NULL" \/ v.size = 0
    THEN [vec |-> v, ret |-> -1, out |-> o, crash |-> FALSE]
  ELSE
    LET n    == SzSub(v.size, 1)
        w    == [v EXCEPT !.size = n]
        bad  == value /\ OutOfBlock(v, v.size)
        read == IF ~value THEN o ELSE IF bad THEN g ELSE v.data[v.size + 1]
        r    == IF PopShrinks(n, w.capacity)
                  THEN vector_resize(w, w.capacity \div GROWTH_FACTOR, a)
                  ELSE [ret |-> 0, vec |-> w]
    IN  [vec |-> r.vec, ret |-> 0, out |-> read, crash |-> FALSE]

\* vector_pop without the `vec->size == 0` test of line 79.
vector_pop_NoEmptyTest(v, value, o, a, crash, g) ==
  IF v.ptr = "NULL"
    THEN [vec |-> v, ret |-> -1, out |-> o, crash |-> FALSE]
  ELSE
    LET n    == SzSub(v.size, 1)
        w    == [v EXCEPT !.size = n]
        bad  == value /\ OutOfBlock(w, n)
        read == IF ~value THEN o ELSE IF bad THEN g ELSE w.data[n + 1]
    IN  [vec |-> w, ret |-> 0, out |-> read, crash |-> FALSE]

\* vector_pop that passes on the return code of the vector_resize it calls
\* to shrink.
vector_pop_ReportsShrinkFailure(v, value, o, a, crash, g) ==
  IF v.ptr = "NULL" \/ v.size = 0
    THEN [vec |-> v, ret |-> -1, out |-> o, crash |-> FALSE]
  ELSE
    LET n    == SzSub(v.size, 1)
        w    == [v EXCEPT !.size = n]
        bad  == value /\ OutOfBlock(w, n)
        read == IF ~value THEN o ELSE IF bad THEN g ELSE w.data[n + 1]
        r    == IF PopShrinks(n, w.capacity)
                  THEN vector_resize(w, w.capacity \div GROWTH_FACTOR, a)
                  ELSE [ret |-> 0, vec |-> w]
    IN  [vec |-> r.vec, ret |-> r.ret, out |-> read, crash |-> bad /\ crash]

vector_pop(v, value, o, a, crash, g) ==
  IF v.ptr = "NULL" \/ v.size = 0
    THEN [vec |-> v, ret |-> -1, out |-> o, crash |-> FALSE]
  ELSE
    LET n    == SzSub(v.size, 1)
        w    == [v EXCEPT !.size = n]
        bad  == value /\ OutOfBlock(w, n)
        read == IF ~value THEN o ELSE IF bad THEN g ELSE w.data[n + 1]
        r    == IF PopShrinks(n, w.capacity)
                  THEN vector_resize(w, w.capacity \div GROWTH_FACTOR, a)
                  ELSE [ret |-> 0, vec |-> w]
    IN  [vec |-> r.vec, ret |-> 0, out |-> read, crash |-> bad /\ crash]

\* vector_get that checks the index against capacity instead of size.
vector_get_ChecksCapacity(v, index, value, o, crash, g) ==
  IF v.ptr = "NULL" \/ index >= v.capacity \/ ~value
    THEN [ret |-> -1, out |-> o, crash |-> FALSE]
  ELSE IF OutOfBlock(v, index)
    THEN [ret |-> 0, out |-> g, crash |-> crash]
    ELSE [ret |-> 0, out |-> v.data[index + 1], crash |-> FALSE]

vector_get(v, index, value, o, crash, g) ==
  IF v.ptr = "NULL" \/ index >= v.size \/ ~value
    THEN [ret |-> -1, out |-> o, crash |-> FALSE]
  ELSE IF OutOfBlock(v, index)
    THEN [ret |-> 0, out |-> g, crash |-> crash]
    ELSE [ret |-> 0, out |-> v.data[index + 1], crash |-> FALSE]

\* vector_set that writes one slot too far.
vector_set_OffByOne(v, index, value, crash) ==
  IF v.ptr = "NULL" \/ index >= v.size
    THEN [vec |-> v, ret |-> -1, crash |-> FALSE]
  ELSE IF OutOfBlock(v, index + 1)
    THEN [vec |-> v, ret |-> 0, crash |-> FALSE]
    ELSE [vec |-> [v EXCEPT !.data[index + 2] = value], ret |-> 0,
          crash |-> FALSE]

vector_set(v, index, value, crash) ==
  IF v.ptr = "NULL" \/ index >= v.size
    THEN [vec |-> v, ret |-> -1, crash |-> FALSE]
  ELSE IF OutOfBlock(v, index)
    THEN [vec |-> v, ret |-> 0, crash |-> crash]
    ELSE [vec |-> [v EXCEPT !.data[index + 1] = value], ret |-> 0,
          crash |-> FALSE]

\* vector_destroy.  The caller's pointer is passed by value, so after the
\* call it still holds the address of the released record: ptr = "freed".
\* A second call on that pointer reads vec->data from the released record
\* and releases both blocks again: the process dies, or it goes on with a
\* heap whose blocks were released twice (ptr = "freed_twice").
vector_destroy(v, crash) ==
  IF v.ptr = "NULL" THEN [vec |-> v, crash |-> FALSE]
  ELSE IF v.ptr = "heap"
    THEN [vec |-> [ptr |-> "freed", data |-> <<>>, size |-> 0, capacity |-> 0],
          crash |-> FALSE]
    ELSE [vec |-> [ptr |-> "freed_twice", data |-> <<>>, size |-> 0,
                   capacity |-> 0],
          crash |-> crash]

vector_size(v) == IF v.ptr # "NULL" THEN v.size ELSE 0

\* ------------------------------------------------------------------- state
\* vec      the Vector the client holds (NULL before vector_create succeeds)
\* op, ret  the last call the client made and the code it returned
\* out      the client's `int value;`, whose address it passes to pop / get
\* pc       "run", or "crashed" once an out-of-block access killed the process
\* Bookkeeping the client keeps beside the vector, from return codes only:
\* initial  the argument of the vector_create call
\* balance  pushes that returned 0 minus pops that returned 0
\* ref      the reference sequence (push = append, pop = remove last,
\*          set = replace), updated only by calls that returned 0
\* onlyPush whether every call since vector_create was a push that returned 0
\* calc     the call into math_utils.c in progress (Idle while the vector
\*          client runs)
\* gheap    the heap blocks behind the generic containers
\* gvec     the GenericVector behind each handle the client holds
\* gop      the last call the client made on a generic container
\* calculator  the calculator process: where its command loop stands, the
\*          command it is processing and the line it printed for the last one
\* flapper  the Game of foss_flapper and the input of the last frame
\* guessing the number-guessing process: where it is, its Game, and the
\*          last guess with what process_guess returned for it
\* game     the Game of tic_tac_toe.c
\* play     the tic-tac-toe process: the mode it plays in and what became
\*          of the last input
VARIABLES vec, op, ret, out, pc, initial, balance, ref, onlyPush, calc,
          gheap, gvec, gop, calculator, game, play, flapper, guessing

gvVars == <<gheap, gvec, gop>>
tttVars == <<game, play>>
\* The components beside the fixed vector and math_utils.c.
appVars == <<gvVars, calculator, tttVars, flapper, guessing>>
vecVars == <<vec, op, ret, out, pc, initial, balance, ref, onlyPush>>
vars == <<vecVars, calc, appVars>>
\* What a call on a generic container leaves alone.
gvFrame == <<vecVars, calc, calculator, tttVars, flapper, guessing>>
\* What the calculator leaves alone, beside the call into math_utils.c it
\* makes.
calculatorFrame == <<vecVars, gvVars, tttVars, flapper, guessing>>
\* What tic-tac-toe leaves alone.
tttFrame == <<vecVars, calc, gvVars, calculator, flapper, guessing>>
\* What the flapper leaves alone.
flapperFrame == <<vecVars, calc, gvVars, calculator, tttVars, guessing>>
\* What the number-guessing game leaves alone.
guessingFrame == <<vecVars, calc, gvVars, calculator, tttVars, flapper>>

\* No call into math_utils.c is in progress.
Idle == [fn |-> "none"]

\* Initial capacities the client asks for in Spec: none of them wraps.
InitCaps == {0, 2, 3, 9, 12}
\* In SpecWrap: capacities whose byte count, or whose doubled byte count,
\* is not representable in size_t.
WrapCaps == {SIZE_MOD \div 8, SIZE_MOD \div 4, SIZE_MOD \div 4 + 1}
WrapValues == {1}
WrapMaxSize == SIZE_MOD \div 8 + WrapSlack

VecInit ==
  /\ vec = NULL
  /\ op = "none"
  /\ ret = 0
  /\ out = Uninit
  /\ pc = "run"
  /\ initial = 0
  /\ balance = 0
  /\ ref = <<>>
  /\ onlyPush = TRUE

\* The handles the client of the generic container holds: the container it
\* created and the copy it took of it.
GHandles == {"vec", "copy"}
\* Addresses of the heap blocks the two containers can occupy.
GBlocks == {1, 2}
GNULL == [ptr |-> "NULL", data |-> 0, size |-> 0, capacity |-> 0,
          element_size |-> 0]
\* A heap block that is not allocated.
GFree == [live |-> FALSE, cells |-> <<>>]
GNoCall == [fn |-> "none"]

GvInit ==
  /\ gheap = [b \in GBlocks |-> GFree]
  /\ gvec = [h \in GHandles |-> GNULL]
  /\ gop = GNoCall

\* The calculator at its prompt: pc is "prompt" while it waits for a command,
\* "call" while the function behind the command runs and "exit" once main
\* has returned status; line is what the last command made it print.
CalculatorAt(at, o, a, b, line, status) ==
  [pc |-> at, op |-> o, a |-> a, b |-> b, line |-> line, status |-> status]
NoLine == [kind |-> "none"]
CalculatorInit == calculator = CalculatorAt("prompt", "none", 0, 0, NoLine, -1)

\* tic_tac_toe.c lines 11-14.
BOARD_SIZE == 3
EMPTY == " "
PLAYER_X == "X"
PLAYER_O == "O"

\* Lines 27-37.
init_game ==
  [board |-> [i \in 0..(BOARD_SIZE - 1) |-> [j \in 0..(BOARD_SIZE - 1) |-> EMPTY]],
   current_player |-> PLAYER_X, moves_made |-> 0, game_over |-> 0,
   winner |-> EMPTY]

\* The process at its menu; mode is "menu", "ai" in play_vs_ai and "two" in
\* play_two_player, and last tells what became of the last input line:
\* "none", "accepted", "rejected" or, for the move of the AI, "ai".
PlayAt(mode, last) == [mode |-> mode, last |-> last]
TttInit == game = init_game /\ play = PlayAt("menu", "none")

\* foss_flapper/src/config.h lines 12-19.
SCREEN_WIDTH == 512
SCREEN_HEIGHT == 768
GRAVITY == 980
JUMP_FORCE == -400
PIPE_WIDTH == 80
PIPE_GAP == 200
PIPE_SPEED == 200
BIRD_RADIUS == 16

\* GetFrameTime (main.c line 171) returns 1/Sub of a second in every frame
\* of the model, and a length is counted in 1/Sub of a pixel: with Sub = 4
\* every product with deltaTime is exact, as it is in float.
Sub == 4

\* The values GetRandomValue(100, SCREEN_HEIGHT - PIPE_GAP - 100) returns in
\* the model (main.c lines 143, 219).
GapYs == {184, 284}

Rectangle(x, y, width, height) == [x |-> x, y |-> y, width |-> width, height |-> height]

\* main.c lines 144-156 and 219-226: pipe at x with its gap at gapY.
PipeAt(x, gapY) ==
  [top |-> Rectangle(x, 0, PIPE_WIDTH * Sub, gapY * Sub),
   bottom |-> Rectangle(x, (gapY + PIPE_GAP) * Sub, PIPE_WIDTH * Sub,
                        (SCREEN_HEIGHT - (gapY + PIPE_GAP)) * Sub),
   scored |-> FALSE]

\* main.c lines 127-162: InitGame on a Game with the given high score (the
\* one field of the model it leaves alone), gaps[i] being the random value
\* drawn for pipe i.
InitGame(highScore, gaps) ==
  [bird |-> [position |-> [x |-> (SCREEN_WIDTH * Sub) \div 4,
                           y |-> (SCREEN_HEIGHT * Sub) \div 2],
             velocity |-> [x |-> 0, y |-> 0],
             radius |-> BIRD_RADIUS * Sub],
   pipeManager |-> [pipes |-> [i \in 0..3 |->
                                 PipeAt((SCREEN_WIDTH + i * 200) * Sub, gaps[i])],
                    pipeCount |-> 4],
   gameState |-> "READY", score |-> 0, highScore |-> highScore]

\* main.c line 91: Game game = {0}, READY being the first of the enum.
ZeroGame ==
  [bird |-> [position |-> [x |-> 0, y |-> 0], velocity |-> [x |-> 0, y |-> 0],
             radius |-> 0],
   pipeManager |-> [pipes |-> [i \in 0..3 |->
                                 [top |-> Rectangle(0, 0, 0, 0),
                                  bottom |-> Rectangle(0, 0, 0, 0),
                                  scored |-> FALSE]],
                    pipeCount |-> 0],
   gameState |-> "READY", score |-> 0, highScore |-> 0]

\* The process in main before its call of InitGame (pc "main"; "loop" once
\* it is in the loop of lines 105-109); pressed is the input of the last
\* frame.
FlapperAt(pc0, g, pressed) == [pc |-> pc0, game |-> g, pressed |-> pressed]
FlapperInit == flapper = FlapperAt("main", ZeroGame, FALSE)

\* number_guessing.c lines 14-22: a Game.
GuessGame(secret, lo, hi, attempts, used, won, difficulty) ==
  [secret_number |-> secret, min_range |-> lo, max_range |-> hi,
   max_attempts |-> attempts, attempts_used |-> used, game_won |-> won,
   difficulty |-> difficulty]

\* The process: pc is "menu" in the menus of main, "loop" at the test of
\* the loop of play_game and "stats" at its display_statistics; guess and
\* ret are the last guess and what process_guess returned for it, and
\* counted tells whether the last input reached process_guess.
GuessingAt(pc0, g, counted, guess, value) ==
  [pc |-> pc0, game |-> g, called |-> counted, guess |-> guess, ret |-> value]

\* main, lines 297-303: the Game is not set before a difficulty is chosen;
\* the model holds zeros in it, which no step reads.
GuessingInit ==
  guessing = GuessingAt("menu", GuessGame(0, 0, 0, 0, 0, 0, 0), FALSE, 0, 0)

AppInit == GvInit /\ CalculatorInit /\ TttInit /\ FlapperInit /\ GuessingInit

Init == VecInit /\ calc = Idle /\ AppInit

\* The process died in the call: nothing of it can be observed afterwards.
Crash == pc' = "crashed" /\ UNCHANGED <<vec, op, ret, out, initial, balance, ref, onlyPush, calc, appVars>>

Create(initial_capacity, a) ==
  /\ pc = "run"
  /\ vec.ptr # "heap"
  /\ vec' = vector_create(initial_capacity, a)
  /\ op' = "create"
  /\ ret' = IF vec'.ptr = "NULL" THEN -1 ELSE 0
  /\ initial' = initial_capacity
  /\ balance' = 0
  /\ ref' = <<>>
  /\ onlyPush' = TRUE
  /\ UNCHANGED <<out, pc, calc, appVars>>

Push(value, limit) ==
  /\ pc = "run"
  /\ vector_size(vec) < limit
  /\ \E a \in IF PushGrows(vec) THEN AllocOutcomes ELSE {"ok"} :
     \E crash \in IF vector_push(vec, value, a, TRUE).crash THEN BOOLEAN ELSE {FALSE} :
       LET r == vector_push(vec, value, a, crash)
       IN  IF r.crash THEN Crash
           ELSE /\ vec' = r.vec
                /\ op' = "push"
                /\ ret' = r.ret
                /\ balance' = IF r.ret = 0 THEN balance + 1 ELSE balance
                /\ ref' = IF r.ret = 0 THEN Append(ref, value) ELSE ref
                /\ onlyPush' = (onlyPush /\ r.ret = 0)
                /\ UNCHANGED <<out, pc, initial, calc, appVars>>

Pop(value) ==
  /\ pc = "run"
  /\ \E a \in IF vec.size > 0 /\ PopShrinks(vec.size - 1, vec.capacity)
                THEN AllocOutcomes ELSE {"ok"} :
     \E g \in Indeterminate :
     \E crash \in IF vector_pop(vec, value, out, a, TRUE, g).crash THEN BOOLEAN ELSE {FALSE} :
       LET r == vector_pop(vec, value, out, a, crash, g)
       IN  IF r.crash THEN Crash
           ELSE /\ vec' = r.vec
                /\ op' = "pop"
                /\ ret' = r.ret
                /\ out' = r.out
                /\ balance' = IF r.ret = 0 THEN balance - 1 ELSE balance
                /\ ref' = IF r.ret = 0 /\ Len(ref) > 0
                            THEN SubSeq(ref, 1, Len(ref) - 1) ELSE ref
                /\ onlyPush' = FALSE
                /\ UNCHANGED <<pc, initial, calc, appVars>>

Get(index, value) ==
  /\ pc = "run"
  /\ \E g \in Indeterminate :
     \E crash \in IF vector_get(vec, index, value, out, TRUE, g).crash THEN BOOLEAN ELSE {FALSE} :
       LET r == vector_get(vec, index, value, out, crash, g)
       IN  IF r.crash THEN Crash
           ELSE /\ op' = "get"
                /\ ret' = r.ret
                /\ out' = r.out
                /\ onlyPush' = FALSE
                /\ UNCHANGED <<vec, pc, initial, balance, ref, calc, appVars>>

Set(index, value) ==
  /\ pc = "run"
  /\ \E crash \in IF vector_set(vec, index, value, TRUE).crash THEN BOOLEAN ELSE {FALSE} :
       LET r == vector_set(vec, index, value, crash)
       IN  IF r.crash THEN Crash
           ELSE /\ vec' = r.vec
                /\ op' = "set"
                /\ ret' = r.ret
                /\ ref' = IF r.ret = 0 /\ index < Len(ref)
                            THEN [ref EXCEPT ![index + 1] = value] ELSE ref
                /\ onlyPush' = FALSE
                /\ UNCHANGED <<out, pc, initial, balance, calc, appVars>>

Destroy ==
  /\ pc = "run"
  /\ \E crash \in IF vector_destroy(vec, TRUE).crash THEN BOOLEAN ELSE {FALSE} :
       LET r == vector_destroy(vec, crash)
       IN  IF r.crash THEN Crash
           ELSE /\ vec' = r.vec
                /\ op' = "destroy"
                /\ onlyPush' = FALSE
                /\ UNCHANGED <<ret, out, pc, initial, balance, ref, calc, appVars>>

Next ==
  \/ \E c \in InitCaps, a \in {"ok", "null"} : Create(c, a)
  \/ \E value \in Values : Push(value, MaxSize)
  \/ \E value \in BOOLEAN : Pop(value)
  \/ \E index \in 0..MaxIndex, value \in BOOLEAN : Get(index, value)
  \/ \E index \in 0..MaxIndex, value \in Values : Set(index, value)

Spec == Init /\ [][Next]_vars

NextWrap ==
  \/ \E c \in WrapCaps, a \in {"ok", "null"} : Create(c, a)
  \/ \E value \in WrapValues : Push(value, WrapMaxSize)
  \/ \E value \in BOOLEAN : Pop(value)
  \/ \E index \in 0..MaxIndex, value \in BOOLEAN : Get(index, value)
  \/ \E index \in 0..MaxIndex, value \in WrapValues : Set(index, value)

SpecWrap == Init /\ [][NextWrap]_vars

\* The client of SpecLife also destroys the vector, possibly more than once,
\* and creates a new one afterwards; it makes no other call on a pointer it
\* has destroyed.
LifeCaps == {0, 2}
Usable == vec.ptr \in {"NULL", "heap"}

NextLife ==
  \/ \E c \in LifeCaps, a \in {"ok", "null"} : Create(c, a)
  \/ \E value \in Values : Usable /\ Push(value, LifeMaxSize)
  \/ \E value \in BOOLEAN : Usable /\ Pop(value)
  \/ \E index \in 0..LifeMaxSize, value \in BOOLEAN : Usable /\ Get(index, value)
  \/ \E index \in 0..LifeMaxSize, value \in Values : Usable /\ Set(index, value)
  \/ Destroy

SpecLife == Init /\ [][NextLife]_vars

\* The client of SpecHysteresis only pushes and pops, on vectors that grow
\* beyond DEFAULT_CAPACITY (3 -> 6 -> 12, 5 -> 10, 7 -> 14) or start above
\* it (15); the byte count of every capacity it reaches is below SIZE_MOD.
HysteresisCaps == {3, 5, 7, 15}

NextHysteresis ==
  \/ \E c \in HysteresisCaps, a \in {"ok", "null"} : Create(c, a)
  \/ \E value \in WrapValues : Push(value, HysteresisMaxSize)
  \/ \E value \in BOOLEAN : Pop(value)

SpecHysteresis == Init /\ [][NextHysteresis]_vars

(***************************************************************************)
(* Part 2: libs/math_utils/src/math_utils.c.                               *)
(*                                                                         *)
(* int is the 32-bit machine int and long long the 64-bit one.  A long     *)
(* long value is an exact integer [neg, mag]: mag is its magnitude as a    *)
(* sequence of limbs in base Base, least significant first, without        *)
(* leading zero limbs; zero is [neg |-> FALSE, mag |-> <<>>].  The         *)
(* operators Mag* and Big* are exact integer arithmetic on that form; the  *)
(* machine operations are built from them with their range tests.          *)
(***************************************************************************)
Base == 10000

Max(a, b) == IF a >= b THEN a ELSE b

Limb(m, i) == IF i <= Len(m) THEN m[i] ELSE 0

RECURSIVE MagNorm(_)
MagNorm(m) ==
  IF m = <<>> THEN m
  ELSE IF m[Len(m)] = 0 THEN MagNorm(SubSeq(m, 1, Len(m) - 1)) ELSE m

RECURSIVE MagOfNat(_)
MagOfNat(n) == IF n = 0 THEN <<>> ELSE <<n % Base>> \o MagOfNat(n \div Base)

RECURSIVE MagCmpFrom(_, _, _)
MagCmpFrom(a, b, i) ==
  IF i = 0 THEN 0
  ELSE IF Limb(a, i) < Limb(b, i) THEN -1
  ELSE IF Limb(a, i) > Limb(b, i) THEN 1
  ELSE MagCmpFrom(a, b, i - 1)

\* -1, 0 or 1 as a is below, equal to or above b.
MagCmp(a, b) == MagCmpFrom(a, b, Max(Len(a), Len(b)))

RECURSIVE MagAddFrom(_, _, _, _)
MagAddFrom(a, b, i, c) ==
  IF i > Max(Len(a), Len(b)) THEN (IF c = 0 THEN <<>> ELSE <<c>>)
  ELSE LET s == Limb(a, i) + Limb(b, i) + c
       IN  <<s % Base>> \o MagAddFrom(a, b, i + 1, s \div Base)

MagAdd(a, b) == MagAddFrom(a, b, 1, 0)

RECURSIVE MagSubFrom(_, _, _, _)
MagSubFrom(a, b, i, c) ==
  IF i > Len(a) THEN <<>>
  ELSE LET s == Limb(a, i) - Limb(b, i) - c
       IN  IF s < 0 THEN <<s + Base>> \o MagSubFrom(a, b, i + 1, 1)
           ELSE <<s>> \o MagSubFrom(a, b, i + 1, 0)

\* a - b for a >= b.
MagSub(a, b) == MagNorm(MagSubFrom(a, b, 1, 0))

RECURSIVE MagMulSmallFrom(_, _, _, _)
MagMulSmallFrom(a, d, i, c) ==
  IF i > Len(a) THEN (IF c = 0 THEN <<>> ELSE <<c>>)
  ELSE LET s == a[i] * d + c
       IN  <<s % Base>> \o MagMulSmallFrom(a, d, i + 1, s \div Base)

\* a * d for one limb d.
MagMulSmall(a, d) == MagNorm(MagMulSmallFrom(a, d, 1, 0))

RECURSIVE MagMulFrom(_, _, _)
MagMulFrom(a, b, j) ==
  IF j > Len(b) THEN <<>>
  ELSE LET row == MagMulSmall(a, b[j])
           shifted == IF row = <<>> THEN row ELSE [k \in 1..(j - 1) |-> 0] \o row
       IN  MagAdd(shifted, MagMulFrom(a, b, j + 1))

MagMul(a, b) == MagNorm(MagMulFrom(a, b, 1))

RECURSIVE DigitSearch(_, _, _, _)
\* The largest d in lo..hi with d * b <= r, given lo * b <= r.
DigitSearch(r, b, lo, hi) ==
  IF lo = hi THEN lo
  ELSE LET mid == (lo + hi + 1) \div 2
       IN  IF MagCmp(MagMulSmall(b, mid), r) <= 0
             THEN DigitSearch(r, b, mid, hi)
             ELSE DigitSearch(r, b, lo, mid - 1)

RECURSIVE MagDivFrom(_, _, _, _)
\* Long division of the limbs a[1..i] below the running remainder r.
MagDivFrom(a, b, i, r) ==
  IF i = 0 THEN [q |-> <<>>, r |-> r]
  ELSE LET r1 == MagNorm(<<a[i]>> \o r)
           d == DigitSearch(r1, b, 0, Base - 1)
           rest == MagDivFrom(a, b, i - 1, MagSub(r1, MagMulSmall(b, d)))
       IN  [q |-> rest.q \o <<d>>, r |-> rest.r]

\* Quotient and remainder of a by b, for b # 0.
MagDivMod(a, b) ==
  LET qr == MagDivFrom(a, b, Len(a), <<>>)
  IN  [q |-> MagNorm(qr.q), r |-> qr.r]

Big(neg, m) == LET n == MagNorm(m) IN [neg |-> neg /\ n # <<>>, mag |-> n]

BigOfInt(n) ==
  IF n >= 0 THEN Big(FALSE, MagOfNat(n))
  ELSE Big(TRUE, MagAdd(MagOfNat(-(n + 1)), <<1>>))

BigNeg(x) == Big(~x.neg, x.mag)

BigAdd(x, y) ==
  IF x.neg = y.neg THEN Big(x.neg, MagAdd(x.mag, y.mag))
  ELSE IF MagCmp(x.mag, y.mag) >= 0 THEN Big(x.neg, MagSub(x.mag, y.mag))
  ELSE Big(y.neg, MagSub(y.mag, x.mag))

BigSub(x, y) == BigAdd(x, BigNeg(y))

BigMul(x, y) == Big(x.neg # y.neg, MagMul(x.mag, y.mag))

\* The quotient rounded toward zero, as C's / rounds; y # 0.
BigQuot(x, y) == Big(x.neg # y.neg, MagDivMod(x.mag, y.mag).q)

BigCmp(x, y) ==
  IF x.neg # y.neg THEN (IF x.neg THEN -1 ELSE 1)
  ELSE IF x.neg THEN MagCmp(y.mag, x.mag)
  ELSE MagCmp(x.mag, y.mag)

BigLt(x, y) == BigCmp(x, y) < 0
BigLe(x, y) == BigCmp(x, y) <= 0
BigGt(x, y) == BigCmp(x, y) > 0

BigZero == BigOfInt(0)
BigOne == BigOfInt(1)

\* 9223372036854775807 and -9223372036854775808.
LLONG_MAX == [neg |-> FALSE, mag |-> <<5807, 5477, 368, 3372, 922>>]
LLONG_MIN == [neg |-> TRUE, mag |-> <<5808, 5477, 368, 3372, 922>>]

InLongLong(x) == BigLe(LLONG_MIN, x) /\ BigLe(x, LLONG_MAX)

\* r brought into lo..hi by one step of the modulus m.
BigCentre(r, lo, hi, m) ==
  IF BigGt(r, hi) THEN BigSub(r, m)
  ELSE IF BigLt(r, lo) THEN BigAdd(r, m)
  ELSE r

\* 2^64, and the value a 64-bit register holds for the exact value x.
TwoTo64 == BigMul(BigAdd(LLONG_MAX, BigOne), BigOfInt(2))
WrapLongLong(x) ==
  BigCentre(Big(x.neg, MagDivMod(x.mag, TwoTo64.mag).r), LLONG_MIN, LLONG_MAX, TwoTo64)

\* ------------------------------------------- long long machine arithmetic
\* a * b, a + b, a - b and a / b on long long: the exact value v when it is
\* representable; otherwise the operation is undefined (ub) and val is what
\* a wrapping build leaves in the register.
LLResult(v) == [val |-> WrapLongLong(v), ub |-> ~InLongLong(v)]

LLMul(a, b) == LLResult(BigMul(a, b))

LLAdd(a, b) == LLResult(BigAdd(a, b))

LLSub(a, b) == LLResult(BigSub(a, b))

LLDiv(a, b) ==
  IF b = BigZero THEN [val |-> BigZero, ub |-> TRUE]
  ELSE LLResult(BigQuot(a, b))

\* Lines 30-31 with the product p; tested_ub tells that the test before it
\* was undefined.
MultiplyStored(p, tested_ub) ==
  [ret |-> 0, result |-> p.val, ub |-> tested_ub \/ p.ub]

\* One of the tests of lines 17-27, x > q (above) or x < q, with q the
\* quotient it compares with, then lines 30-31.  result is what *result
\* held before the call.
MultiplyTested(a, b, result, q, x, above) ==
  IF (IF above THEN BigGt(x, q.val) ELSE BigLt(x, q.val))
    THEN [ret |-> -1, result |-> result, ub |-> q.ub]
    ELSE MultiplyStored(LLMul(a, b), q.ub)

\* safe_multiply_long_long with the single test of the all-positive case.
safe_multiply_long_long_OneTest(a, b, result) ==
  IF a = BigZero \/ b = BigZero
    THEN [ret |-> 0, result |-> BigZero, ub |-> FALSE]
    ELSE MultiplyTested(a, b, result, LLDiv(LLONG_MAX, b), a, TRUE)

\* ub tells that the call evaluated an undefined operation.
safe_multiply_long_long(a, b, result) ==
  IF a = BigZero \/ b = BigZero
    THEN [ret |-> 0, result |-> BigZero, ub |-> FALSE]
  ELSE IF BigGt(a, BigZero) /\ BigGt(b, BigZero)
    THEN MultiplyTested(a, b, result, LLDiv(LLONG_MAX, b), a, TRUE)
  ELSE IF BigLt(a, BigZero) /\ BigLt(b, BigZero)
    THEN MultiplyTested(a, b, result, LLDiv(LLONG_MAX, b), a, FALSE)
  ELSE IF BigGt(a, BigZero) /\ BigLt(b, BigZero)
    THEN MultiplyTested(a, b, result, LLDiv(LLONG_MIN, a), b, FALSE)
  ELSE MultiplyTested(a, b, result, LLDiv(LLONG_MIN, b), a, FALSE)

\* Line 38 with hi = LLONG_MAX - b and lo = LLONG_MIN - b, each evaluated
\* only for b of its sign, then lines 41-42 with the sum s.
AddTested(a, b, result, hi, lo, s) ==
  IF (BigGt(b, BigZero) /\ BigGt(a, hi.val)) \/ (BigLt(b, BigZero) /\ BigLt(a, lo.val))
    THEN [ret |-> -1, result |-> result,
          ub |-> (BigGt(b, BigZero) /\ hi.ub) \/ (BigLt(b, BigZero) /\ lo.ub)]
    ELSE [ret |-> 0, result |-> s.val,
          ub |-> s.ub \/ (BigGt(b, BigZero) /\ hi.ub) \/ (BigLt(b, BigZero) /\ lo.ub)]

\* safe_add_long_long with the test for b > 0 only.
safe_add_long_long_UpperTestOnly(a, b, result) ==
  AddTested(a, IF BigLt(b, BigZero) THEN BigZero ELSE b, result,
            LLSub(LLONG_MAX, b), LLSub(LLONG_MIN, b), LLAdd(a, b))

safe_add_long_long(a, b, result) ==
  AddTested(a, b, result, LLSub(LLONG_MAX, b), LLSub(LLONG_MIN, b), LLAdd(a, b))

\* What an uninitialised long long holds in the model.
LLUninit == BigOfInt(Uninit)

\* --------------------------------------------------- calls into math_utils
\* calc is the call in progress: Idle, or the record of a call with its
\* arguments and, once it has returned, its results.
Return ==
  /\ calc.fn # "none"
  /\ calc.pc = "done"
  /\ calc' = Idle
  /\ UNCHANGED <<vecVars, appVars>>

\* Magnitudes of the operands of safe_multiply_long_long: 1, 2, 3, 2^31,
\* 2^32, both neighbours of the square root of 2^63, LLONG_MAX / 3 and its
\* successor, 2^62 - 1, 2^62, LLONG_MAX - 1 and LLONG_MAX.
MulMagnitudes ==
  { BigOne, BigOfInt(2), BigOfInt(3),
    BigAdd(BigOfInt(2147483647), BigOne),
    BigMul(BigAdd(BigOfInt(2147483647), BigOne), BigOfInt(2)),
    [neg |-> FALSE, mag |-> <<499, 3700, 30>>],
    [neg |-> FALSE, mag |-> <<500, 3700, 30>>],
    BigQuot(LLONG_MAX, BigOfInt(3)),
    BigAdd(BigQuot(LLONG_MAX, BigOfInt(3)), BigOne),
    BigQuot(LLONG_MAX, BigOfInt(2)),
    BigAdd(BigQuot(LLONG_MAX, BigOfInt(2)), BigOne),
    BigSub(LLONG_MAX, BigOne),
    LLONG_MAX }

MulOperands ==
  {BigZero, LLONG_MIN} \cup MulMagnitudes \cup {BigNeg(m) : m \in MulMagnitudes}

MultiplyCall(a, b, r) ==
  [fn |-> "safe_multiply_long_long", pc |-> "done", a |-> a, b |-> b,
   ret |-> r.ret, result |-> r.result, ub |-> r.ub]

Multiply(a, b) ==
  /\ calc.fn = "none"
  /\ calc' = MultiplyCall(a, b, safe_multiply_long_long(a, b, LLUninit))
  /\ UNCHANGED <<vecVars, appVars>>

NextMultiply ==
  \/ \E a \in MulOperands, b \in MulOperands : Multiply(a, b)
  \/ Return

SpecMultiply == Init /\ [][NextMultiply]_vars

\* Operands of safe_add_long_long: those of the multiplication; 0, 1, -1,
\* LLONG_MAX, LLONG_MIN and LLONG_MIN + 1 are among them.
AddOperands == MulOperands

AddCall(a, b, r) ==
  [fn |-> "safe_add_long_long", pc |-> "done", a |-> a, b |-> b,
   ret |-> r.ret, result |-> r.result, ub |-> r.ub]

Add(a, b) ==
  /\ calc.fn = "none"
  /\ calc' = AddCall(a, b, safe_add_long_long(a, b, LLUninit))
  /\ UNCHANGED <<vecVars, appVars>>

NextAdd ==
  \/ \E a \in AddOperands, b \in AddOperands : Add(a, b)
  \/ Return

SpecAdd == Init /\ [][NextAdd]_vars

\* ------------------------------------------------------------ int arguments
INT_MAX == 2147483647
INT_MIN == -INT_MAX - 1

\* The int arguments of math_factorial and math_fibonacci that are tried:
\* every n of a range around the accepted ones, and both ends of int.
ArgRange(lo, hi) == (lo..hi) \cup {INT_MIN, INT_MAX}

MinusOne == BigOfInt(-1)

\* ---------------------------------------------------------- math_factorial
\* A call of math_factorial, math_fibonacci or math_power is followed
\* statement by statement: the record of the call holds its arguments, its
\* locals and pc, "loop" before each test of its loop and "done" once it has
\* returned; overflow tells that it returned because safe_multiply_long_long
\* or safe_add_long_long reported an overflow.
FactorialDone(n, value, overflow, ub) ==
  [fn |-> "math_factorial", n |-> n, pc |-> "done", ret |-> value,
   overflow |-> overflow, ub |-> ub, result |-> BigZero, i |-> 0]

FactorialLoop(n, result, i, ub) ==
  [fn |-> "math_factorial", n |-> n, pc |-> "loop", ret |-> BigZero,
   overflow |-> FALSE, ub |-> ub, result |-> result, i |-> i]

\* math_factorial refusing 20 as too large.
math_factorial_TooLargeAt20(n) ==
  IF n < 0 THEN FactorialDone(n, MinusOne, FALSE, FALSE)
  ELSE IF n > 19 THEN FactorialDone(n, MinusOne, FALSE, FALSE)
  ELSE FactorialLoop(n, BigOne, 2, FALSE)

\* Lines 90-100: the call up to the first test of the loop.
math_factorial(n) ==
  IF n < 0 THEN FactorialDone(n, MinusOne, FALSE, FALSE)
  ELSE IF n > 20 THEN FactorialDone(n, MinusOne, FALSE, FALSE)
  ELSE FactorialLoop(n, BigOne, 2, FALSE)

\* Lines 102-105 with m what safe_multiply_long_long returned.
FactorialMultiplied(c, m) ==
  IF m.ret # 0 THEN FactorialDone(c.n, MinusOne, TRUE, c.ub \/ m.ub)
  ELSE FactorialLoop(c.n, m.result, c.i + 1, c.ub \/ m.ub)

\* Lines 100-108: one test of the loop with the iteration or the return
\* that follows it; c is the call at pc = "loop".
math_factorial_iteration(c) ==
  IF c.i <= c.n
    THEN FactorialMultiplied(c, safe_multiply_long_long(c.result, BigOfInt(c.i), LLUninit))
    ELSE FactorialDone(c.n, c.result, FALSE, c.ub)

FactorialArgs == ArgRange(-MaxArg, MaxArg)

Factorial(n) ==
  /\ calc.fn = "none"
  /\ calc' = math_factorial(n)
  /\ UNCHANGED <<vecVars, appVars>>

FactorialStep ==
  /\ calc.fn = "math_factorial"
  /\ calc.pc = "loop"
  /\ calc' = math_factorial_iteration(calc)
  /\ UNCHANGED <<vecVars, appVars>>

NextFactorial ==
  \/ \E n \in FactorialArgs : Factorial(n)
  \/ FactorialStep
  \/ Return

SpecFactorial == Init /\ [][NextFactorial]_vars

\* ---------------------------------------------------------- math_fibonacci
FibonacciDone(n, value, overflow, ub) ==
  [fn |-> "math_fibonacci", n |-> n, pc |-> "done", ret |-> value,
   overflow |-> overflow, ub |-> ub, prev |-> BigZero, curr |-> BigZero, i |-> 0]

FibonacciLoop(n, prev, curr, i, ub) ==
  [fn |-> "math_fibonacci", n |-> n, pc |-> "loop", ret |-> BigZero,
   overflow |-> FALSE, ub |-> ub, prev |-> prev, curr |-> curr, i |-> i]

\* math_fibonacci starting the loop from F(1) = F(2) = 1.
math_fibonacci_StartsAtOne(n) ==
  IF n < 0 THEN FibonacciDone(n, MinusOne, FALSE, FALSE)
  ELSE IF n <= 1 THEN FibonacciDone(n, BigOfInt(n), FALSE, FALSE)
  ELSE IF n > 92 THEN FibonacciDone(n, MinusOne, FALSE, FALSE)
  ELSE FibonacciLoop(n, BigOne, BigOne, 2, FALSE)

\* Lines 111-126: the call up to the first test of the loop.
math_fibonacci(n) ==
  IF n < 0 THEN FibonacciDone(n, MinusOne, FALSE, FALSE)
  ELSE IF n <= 1 THEN FibonacciDone(n, BigOfInt(n), FALSE, FALSE)
  ELSE IF n > 92 THEN FibonacciDone(n, MinusOne, FALSE, FALSE)
  ELSE FibonacciLoop(n, BigZero, BigOne, 2, FALSE)

\* Lines 128-132 with s what safe_add_long_long returned.
FibonacciAdded(c, s) ==
  IF s.ret # 0 THEN FibonacciDone(c.n, MinusOne, TRUE, c.ub \/ s.ub)
  ELSE FibonacciLoop(c.n, c.curr, s.result, c.i + 1, c.ub \/ s.ub)

\* Lines 126-135: one test of the loop with the iteration or the return
\* that follows it; c is the call at pc = "loop".
math_fibonacci_iteration(c) ==
  IF c.i <= c.n
    THEN FibonacciAdded(c, safe_add_long_long(c.prev, c.curr, LLUninit))
    ELSE FibonacciDone(c.n, c.curr, FALSE, c.ub)

FibonacciArgs == ArgRange(-MaxArg, 2 * MaxArg)

Fibonacci(n) ==
  /\ calc.fn = "none"
  /\ calc' = math_fibonacci(n)
  /\ UNCHANGED <<vecVars, appVars>>

FibonacciStep ==
  /\ calc.fn = "math_fibonacci"
  /\ calc.pc = "loop"
  /\ calc' = math_fibonacci_iteration(calc)
  /\ UNCHANGED <<vecVars, appVars>>

NextFibonacci ==
  \/ \E n \in FibonacciArgs : Fibonacci(n)
  \/ FibonacciStep
  \/ Return

SpecFibonacci == Init /\ [][NextFibonacci]_vars

\* -------------------------------------------------------------- math_power
\* The locals of a call are result, base_ll and e, the exponent that is left.
PowerDone(base, exp, value, overflow, ub) ==
  [fn |-> "math_power", base |-> base, exp |-> exp, pc |-> "done",
   ret |-> value, overflow |-> overflow, ub |-> ub,
   result |-> BigZero, base_ll |-> BigZero, e |-> 0]

PowerLoop(base, exp, result, base_ll, e, ub) ==
  [fn |-> "math_power", base |-> base, exp |-> exp, pc |-> "loop",
   ret |-> BigZero, overflow |-> FALSE, ub |-> ub,
   result |-> result, base_ll |-> base_ll, e |-> e]

\* Lines 138-164: the call up to the first test of the loop.
math_power(base, exp) ==
  IF exp < 0 THEN PowerDone(base, exp, BigZero, FALSE, FALSE)
  ELSE IF exp = 0 THEN PowerDone(base, exp, BigOne, FALSE, FALSE)
  ELSE IF base = 0 THEN PowerDone(base, exp, BigZero, FALSE, FALSE)
  ELSE IF base = 1 THEN PowerDone(base, exp, BigOne, FALSE, FALSE)
  ELSE IF base = -1
    THEN PowerDone(base, exp, IF exp % 2 = 0 THEN BigOne ELSE MinusOne, FALSE, FALSE)
  ELSE IF exp > 63 THEN PowerDone(base, exp, MinusOne, FALSE, FALSE)
  ELSE PowerLoop(base, exp, BigOne, BigOfInt(base), exp, FALSE)

\* Lines 165-181 with m and sq what the two calls of
\* safe_multiply_long_long returned, or their operand where there was no call.
PowerMultiplied(c, m, sq) ==
  IF m.ret # 0 THEN PowerDone(c.base, c.exp, MinusOne, TRUE, c.ub \/ m.ub)
  ELSE IF sq.ret # 0
    THEN PowerDone(c.base, c.exp, MinusOne, TRUE, c.ub \/ m.ub \/ sq.ub)
  ELSE PowerLoop(c.base, c.exp, m.result, sq.result, c.e \div 2, c.ub \/ m.ub \/ sq.ub)

\* The iteration without the test of line 173: the base is squared even
\* when no bit of the exponent is left.
math_power_iteration_AlwaysSquares(c) ==
  IF c.e > 0
    THEN PowerMultiplied(c,
           IF c.e % 2 = 1
             THEN safe_multiply_long_long(c.result, c.base_ll, LLUninit)
             ELSE [ret |-> 0, result |-> c.result, ub |-> FALSE],
           safe_multiply_long_long(c.base_ll, c.base_ll, LLUninit))
    ELSE PowerDone(c.base, c.exp, c.result, FALSE, c.ub)

\* Lines 164-184: one test of the loop with the iteration or the return that
\* follows it; c is the call at pc = "loop".  The exponent that is left is
\* positive, so exp & 1 is its parity and exp >>= 1 halves it.
math_power_iteration(c) ==
  IF c.e > 0
    THEN PowerMultiplied(c,
           IF c.e % 2 = 1
             THEN safe_multiply_long_long(c.result, c.base_ll, LLUninit)
             ELSE [ret |-> 0, result |-> c.result, ub |-> FALSE],
           IF c.e > 1
             THEN safe_multiply_long_long(c.base_ll, c.base_ll, LLUninit)
             ELSE [ret |-> 0, result |-> c.base_ll, ub |-> FALSE])
    ELSE PowerDone(c.base, c.exp, c.result, FALSE, c.ub)

\* Bases: 0, 1, -1, the small ones, those of which a power is exactly 2^62,
\* 2^63 or -2^63 (2, 8, 128, 512, 2^21, 2^31 and their negatives), both
\* neighbours of the square root of 2^31, and both ends of int.
PowerBases ==
  { INT_MIN, -INT_MAX, -2097152, -46341, -46340, -512, -128, -10, -8, -3, -2,
    -1, 0, 1, 2, 3, 5, 7, 8, 10, 128, 512, 46340, 46341, 2097152, INT_MAX }

\* Exponents: every one of -2..MaxExp, and both ends of int.
PowerExps == (-2..MaxExp) \cup {INT_MIN, INT_MAX}

Power(base, exp) ==
  /\ calc.fn = "none"
  /\ calc' = math_power(base, exp)
  /\ UNCHANGED <<vecVars, appVars>>

PowerStep ==
  /\ calc.fn = "math_power"
  /\ calc.pc = "loop"
  /\ calc' = math_power_iteration(calc)
  /\ UNCHANGED <<vecVars, appVars>>

NextPower ==
  \/ \E base \in PowerBases, exp \in PowerExps : Power(base, exp)
  \/ PowerStep
  \/ Return

SpecPower == Init /\ [][NextPower]_vars

\* ----------------------------------------------------- int machine arithmetic
\* The int behind an exact value within [INT_MIN, INT_MAX].
RECURSIVE MagToNat(_)
MagToNat(m) == IF m = <<>> THEN 0 ELSE m[1] + Base * MagToNat(Tail(m))

IntOfBig(x) ==
  IF x.neg THEN -MagToNat(MagSub(x.mag, <<1>>)) - 1 ELSE MagToNat(x.mag)

InInt(x) == BigLe(BigOfInt(INT_MIN), x) /\ BigLe(x, BigOfInt(INT_MAX))

\* 2^32, and the int a 32-bit register holds for the exact value x.
TwoTo32 == BigMul(BigOfInt(65536), BigOfInt(65536))
WrapInt(x) ==
  IntOfBig(BigCentre(Big(x.neg, MagDivMod(x.mag, TwoTo32.mag).r),
                     BigOfInt(INT_MIN), BigOfInt(INT_MAX), TwoTo32))

\* What the build does with an undefined int operation: it computes in the
\* 32-bit register ("wrap"), or the process is stopped by a trap ("trap").
UBOutcomes == {"wrap", "trap"}

\* -a, a * b, a / b and a % b on int: the exact value when it is defined and
\* representable; otherwise ub, with val the value of a wrapping build
\* (a division by zero leaves 0 there).
IntNeg(a) == IF a = INT_MIN THEN [val |-> INT_MIN, ub |-> TRUE] ELSE [val |-> -a, ub |-> FALSE]

IntResult(v) ==
  IF InInt(v) THEN [val |-> IntOfBig(v), ub |-> FALSE]
  ELSE [val |-> WrapInt(v), ub |-> TRUE]

IntMul(a, b) == IntResult(BigMul(BigOfInt(a), BigOfInt(b)))

IntRem(a, b) ==
  IF b = 0 THEN [val |-> 0, ub |-> TRUE]
  ELSE IF b = -1 THEN [val |-> 0, ub |-> a = INT_MIN]
  ELSE IF b = INT_MIN THEN [val |-> IF a = INT_MIN THEN 0 ELSE a, ub |-> FALSE]
  ELSE LET m == IF b < 0 THEN -b ELSE b
           f == a % m
       IN  [val |-> IF a < 0 /\ f # 0 THEN f - m ELSE f, ub |-> FALSE]

IntDiv(a, b) ==
  IF b = 0 THEN [val |-> 0, ub |-> TRUE]
  ELSE IF b = -1 THEN IntNeg(a)
  ELSE IF b = INT_MIN THEN [val |-> IF a = INT_MIN THEN 1 ELSE 0, ub |-> FALSE]
  ELSE LET m == IF b < 0 THEN -b ELSE b
           q == (a - IntRem(a, b).val) \div m
       IN  [val |-> IF b < 0 THEN -q ELSE q, ub |-> FALSE]

\* ---------------------------------------------------------------- math_gcd
\* A call of math_gcd or math_lcm: a and b are the arguments, x and y the
\* locals a and b of math_gcd, pc is "loop" before each test of the while
\* loop, "done" after the return and "crashed" when a trap stopped the call.
GcdCall(fn, a, b, at, x, y, ub) ==
  [fn |-> fn, a |-> a, b |-> b, pc |-> at, x |-> x, y |-> y, ub |-> ub,
   gcd |-> 0, quot |-> 0, ret |-> 0]

\* Lines 45-51: the absolute values, up to the first test of the loop.
GcdEnter(fn, a, b, u) ==
  LET x == IF a < 0 THEN IntNeg(a) ELSE [val |-> a, ub |-> FALSE]
      y == IF b < 0 THEN IntNeg(b) ELSE [val |-> b, ub |-> FALSE]
  IN  IF (x.ub \/ y.ub) /\ u = "trap"
        THEN GcdCall(fn, a, b, "crashed", 0, 0, TRUE)
        ELSE GcdCall(fn, a, b, "loop", x.val, y.val, x.ub \/ y.ub)

\* Lines 51-55: one iteration of the loop, for c.y # 0.
GcdBody(c, u) ==
  LET r == IntRem(c.x, c.y)
  IN  IF r.ub /\ u = "trap"
        THEN [c EXCEPT !.pc = "crashed", !.ub = TRUE]
        ELSE [c EXCEPT !.x = c.y, !.y = r.val, !.ub = @ \/ r.ub]

math_gcd(a, b, u) == GcdEnter("math_gcd", a, b, u)

\* Lines 51-56: one test of the loop with the iteration or the return that
\* follows it.
math_gcd_iteration(c, u) ==
  IF c.y # 0 THEN GcdBody(c, u)
  ELSE [c EXCEPT !.pc = "done", !.gcd = c.x, !.ret = c.x]

\* Operands of math_gcd and math_lcm: every pair of small ones, every pair
\* of a small and a large one, and the given pairs of two large ones.
SmallOperands == (-MaxOperand..MaxOperand) \cup {-48, 48, 100}

GcdLargeOperands == {INT_MIN, -INT_MAX, INT_MAX, -1073741824, 1073741824, 46341}

GcdPairs ==
  (SmallOperands \X SmallOperands)
    \cup (SmallOperands \X GcdLargeOperands)
    \cup (GcdLargeOperands \X SmallOperands)
    \cup ({INT_MIN} \X GcdLargeOperands)
    \cup (GcdLargeOperands \X {INT_MIN})

Gcd(a, b) ==
  /\ calc.fn = "none"
  /\ \E u \in UBOutcomes : calc' = math_gcd(a, b, u)
  /\ UNCHANGED <<vecVars, appVars>>

GcdStep ==
  /\ calc.fn = "math_gcd"
  /\ calc.pc = "loop"
  /\ \E u \in UBOutcomes : calc' = math_gcd_iteration(calc, u)
  /\ UNCHANGED <<vecVars, appVars>>

NextGcd ==
  \/ \E p \in GcdPairs : Gcd(p[1], p[2])
  \/ GcdStep
  \/ Return

SpecGcd == Init /\ [][NextGcd]_vars

\* ---------------------------------------------------------------- math_lcm
\* The return of line 66 with its two operations, first and second, in the
\* order of their evaluation: quot is the value of the first.
LcmReturned(c, first, second, u) ==
  IF (first.ub \/ second.ub) /\ u = "trap"
    THEN [c EXCEPT !.pc = "crashed", !.ub = TRUE]
    ELSE [c EXCEPT !.pc = "done", !.gcd = c.x, !.quot = first.val,
                   !.ret = second.val, !.ub = @ \/ first.ub \/ second.ub]

\* Line 66 with multiplication and division exchanged: (a * b) / gcd.
math_lcm_finish_MultipliesFirst(c, u) ==
  LcmReturned(c, IntMul(c.a, c.b), IntDiv(IntMul(c.a, c.b).val, c.x), u)

LcmDivided(c, q, u) == LcmReturned(c, q, IntMul(q.val, c.b), u)

\* Lines 65-66 after math_gcd has returned c.x: (a / gcd) * b.
math_lcm_finish(c, u) == LcmDivided(c, IntDiv(c.a, c.x), u)

\* Lines 59-65: the zero test, and the call of math_gcd up to its loop.
math_lcm(a, b, u) ==
  IF a = 0 \/ b = 0 THEN GcdCall("math_lcm", a, b, "done", 0, 0, FALSE)
  ELSE GcdEnter("math_lcm", a, b, u)

\* One test of the loop of math_gcd inside math_lcm, with the iteration or,
\* when math_gcd returns, the rest of math_lcm.
math_lcm_iteration(c, u) ==
  IF c.y # 0 THEN GcdBody(c, u) ELSE math_lcm_finish(c, u)

LcmLargeOperands == {INT_MIN, INT_MAX, 1073741824, 46341, 46340, 65536, 32768}

\* The pairs of two large operands: least common multiples just below
\* INT_MAX, equal to one operand, and beyond INT_MAX.
LcmLargePairs ==
  { <<46341, 46340>>, <<46340, 46341>>, <<65536, 32768>>, <<32768, 65536>>,
    <<1073741824, 32768>>, <<INT_MAX, 46340>>, <<65536, 46340>>,
    <<INT_MIN, INT_MAX>>, <<INT_MIN, INT_MIN>> }

LcmPairs ==
  (SmallOperands \X SmallOperands)
    \cup (SmallOperands \X LcmLargeOperands)
    \cup (LcmLargeOperands \X SmallOperands)
    \cup LcmLargePairs

Lcm(a, b) ==
  /\ calc.fn = "none"
  /\ \E u \in UBOutcomes : calc' = math_lcm(a, b, u)
  /\ UNCHANGED <<vecVars, appVars>>

LcmStep ==
  /\ calc.fn = "math_lcm"
  /\ calc.pc = "loop"
  /\ \E u \in UBOutcomes : calc' = math_lcm_iteration(calc, u)
  /\ UNCHANGED <<vecVars, appVars>>

NextLcm ==
  \/ \E p \in LcmPairs : Lcm(p[1], p[2])
  \/ LcmStep
  \/ Return

SpecLcm == Init /\ [][NextLcm]_vars

\* ----------------------------------------------------------- math_is_prime
\* A call of math_is_prime: pc is "loop" before each test i * i <= n of the
\* for loop, "done" after the return, "crashed" when a trap stopped it.
PrimeCall(n, at, i, value, ub) ==
  [fn |-> "math_is_prime", n |-> n, pc |-> at, i |-> i, ret |-> value, ub |-> ub]

\* Lines 69-81: the call up to the first test of the loop.
math_is_prime(n) ==
  IF n <= 1 THEN PrimeCall(n, "done", 0, 0, FALSE)
  ELSE IF n <= 3 THEN PrimeCall(n, "done", 0, 1, FALSE)
  ELSE IF IntRem(n, 2).val = 0 \/ IntRem(n, 3).val = 0 THEN PrimeCall(n, "done", 0, 0, FALSE)
  ELSE PrimeCall(n, "loop", 5, 0, FALSE)

\* What the build does once i * i has overflowed: the loop goes on with a
\* wrapped square until it returns 0 or 1, or the process is stopped.
PrimeUBOutcomes == {"returns 0", "returns 1", "trap"}

\* The test of line 81 with sq the square i * i, then lines 82-87.
PrimeTested(c, sq, u) ==
  IF sq.ub
    THEN IF u = "trap" THEN PrimeCall(c.n, "crashed", c.i, 0, TRUE)
         ELSE PrimeCall(c.n, "done", c.i, IF u = "returns 1" THEN 1 ELSE 0, TRUE)
  ELSE IF sq.val <= c.n
    THEN IF IntRem(c.n, c.i).val = 0 \/ IntRem(c.n, c.i + 2).val = 0
           THEN PrimeCall(c.n, "done", c.i, 0, FALSE)
           ELSE PrimeCall(c.n, "loop", c.i + 6, 0, FALSE)
  ELSE PrimeCall(c.n, "done", c.i, 1, FALSE)

\* Lines 81-87: one test of the loop with the iteration or the return that
\* follows it.
math_is_prime_iteration(c, u) == PrimeTested(c, IntMul(c.i, c.i), u)

\* Arguments: every n of -MaxOperand..MaxPrime, both ends of int, and around
\* 46337 * 46337, the largest square the loop reaches without overflow: the
\* primes next below and above it, and the square itself.
PrimeArgs ==
  (-MaxOperand..MaxPrime)
    \cup {INT_MIN, INT_MAX, 2147117563, 2147117617, 2147117569}

IsPrime(n) ==
  /\ calc.fn = "none"
  /\ calc' = math_is_prime(n)
  /\ UNCHANGED <<vecVars, appVars>>

IsPrimeStep ==
  /\ calc.fn = "math_is_prime"
  /\ calc.pc = "loop"
  /\ \E u \in IF IntMul(calc.i, calc.i).ub THEN PrimeUBOutcomes ELSE {"trap"} :
       calc' = math_is_prime_iteration(calc, u)
  /\ UNCHANGED <<vecVars, appVars>>

NextIsPrime ==
  \/ \E n \in PrimeArgs : IsPrime(n)
  \/ IsPrimeStep
  \/ Return

SpecIsPrime == Init /\ [][NextIsPrime]_vars

(***************************************************************************)
(* Part 3: the generic container                                           *)
(* (libs/data_structures/include/generic_vector.h).  The header declares   *)
(* the GenericVector struct and its functions; the function bodies follow  *)
(* section 4.1 of the specification.  An element is one opaque value of    *)
(* element_size bytes, a heap block is the sequence of its element slots,  *)
(* and the comparator the client passes to gvector_find orders the values  *)
(* as integers.                                                            *)
(***************************************************************************)
\* Largest value of size_t, the NotFound sentinel of gvector_find.
SIZE_MAX == SIZE_MOD - 1

\* Each function is an operator from the heap and the container behind the
\* handle to the record [heap, vec, ret, out]: the heap and the handle's
\* container after the call, the value returned, and the element copied to
\* the caller's output pointer (Uninit when the call writes none).  No
\* function reads a slot at or beyond size, so the model keeps those slots
\* Uninit: a slot that an element leaves is indeterminate from then on.
GResult(heap, v, value, element) ==
  [heap |-> heap, vec |-> v, ret |-> value, out |-> element]

\* The address malloc hands out: the lowest block that is not allocated.
GAlloc(heap) ==
  CHOOSE b \in GBlocks :
    ~heap[b].live /\ \A c \in GBlocks : ~heap[c].live => b <= c

gvector_create(heap, initial_capacity, element_size, a) ==
  LET cap == IF initial_capacity = 0 THEN DEFAULT_CAPACITY ELSE initial_capacity
  IN  IF element_size = 0 \/ a # "ok"
        THEN GResult(heap, GNULL, -1, Uninit)
        ELSE GResult([heap EXCEPT ![GAlloc(heap)] =
                        [live |-> TRUE, cells |-> Malloc(cap)]],
                     [ptr |-> "heap", data |-> GAlloc(heap), size |-> 0,
                      capacity |-> cap, element_size |-> element_size],
                     0, Uninit)

gvector_destroy(heap, v) ==
  IF v.ptr = "NULL" THEN GResult(heap, v, 0, Uninit)
  ELSE GResult([heap EXCEPT ![v.data] = GFree], GNULL, 0, Uninit)

\* Whether gvector_push / gvector_insert has to grow the buffer first.
GGrows(v) == v.ptr # "NULL" /\ v.size = v.capacity

\* Growth: capacity * 2, refused when the byte count of the new buffer is
\* not representable or the allocator fails; the old buffer stays valid.
gvector_grow(heap, v, a) ==
  IF ~GGrows(v) THEN GResult(heap, v, 0, Uninit)
  ELSE IF v.capacity * 2 * v.element_size > SIZE_MAX \/ a # "ok"
    THEN GResult(heap, v, -1, Uninit)
    ELSE GResult([heap EXCEPT ![v.data].cells = Realloc(@, v.capacity * 2)],
                 [v EXCEPT !.capacity = v.capacity * 2], 0, Uninit)

\* The slots of a block after element is written at index and the former
\* slots index..size-1 have moved one slot to the right.
GShiftRight(cells, size, index, element) ==
  [i \in 1..Len(cells) |->
     IF i = index + 1 THEN element
     ELSE IF i > index + 1 /\ i <= size + 1 THEN cells[i - 1]
     ELSE cells[i]]

\* The slots of a block after the slots index+1..size-1 have moved one slot
\* to the left over slot index.
GShiftLeft(cells, size, index) ==
  [i \in 1..Len(cells) |->
     IF i >= index + 1 /\ i < size THEN cells[i + 1]
     ELSE IF i = size THEN Uninit
     ELSE cells[i]]

\* gvector_insert once the buffer has room (g is the result of growing).
GInserted(heap, v, index, element, g) ==
  IF g.ret # 0 THEN GResult(heap, v, -1, Uninit)
  ELSE GResult([g.heap EXCEPT ![v.data].cells =
                  GShiftRight(@, v.size, index, element)],
               [g.vec EXCEPT !.size = v.size + 1], 0, Uninit)

\* gvector_insert that takes only the indices of existing elements.
gvector_insert_NoAppend(heap, v, index, element, a) ==
  IF v.ptr = "NULL" \/ index >= v.size THEN GResult(heap, v, -1, Uninit)
  ELSE GInserted(heap, v, index, element, gvector_grow(heap, v, a))

gvector_insert(heap, v, index, element, a) ==
  IF v.ptr = "NULL" \/ index > v.size THEN GResult(heap, v, -1, Uninit)
  ELSE GInserted(heap, v, index, element, gvector_grow(heap, v, a))

gvector_push(heap, v, element, a) ==
  IF v.ptr = "NULL" THEN GResult(heap, v, -1, Uninit)
  ELSE GInserted(heap, v, v.size, element, gvector_grow(heap, v, a))

gvector_pop(heap, v) ==
  IF v.ptr = "NULL" \/ v.size = 0 THEN GResult(heap, v, -1, Uninit)
  ELSE GResult([heap EXCEPT ![v.data].cells[v.size] = Uninit],
               [v EXCEPT !.size = v.size - 1], 0,
               heap[v.data].cells[v.size])

gvector_get(heap, v, index) ==
  IF v.ptr = "NULL" \/ index >= v.size THEN GResult(heap, v, -1, Uninit)
  ELSE GResult(heap, v, 0, heap[v.data].cells[index + 1])

gvector_set(heap, v, index, element) ==
  IF v.ptr = "NULL" \/ index >= v.size THEN GResult(heap, v, -1, Uninit)
  ELSE GResult([heap EXCEPT ![v.data].cells[index + 1] = element], v, 0, Uninit)

gvector_remove(heap, v, index) ==
  IF v.ptr = "NULL" \/ index >= v.size THEN GResult(heap, v, -1, Uninit)
  ELSE GResult([heap EXCEPT ![v.data].cells = GShiftLeft(@, v.size, index)],
               [v EXCEPT !.size = v.size - 1], 0,
               heap[v.data].cells[index + 1])

\* Linear scan from index i for the first slot equal to element.
RECURSIVE GScan(_, _, _, _)
GScan(cells, size, element, i) ==
  IF i >= size THEN SIZE_MAX
  ELSE IF cells[i + 1] = element THEN i
  ELSE GScan(cells, size, element, i + 1)

gvector_find(heap, v, element) ==
  IF v.ptr = "NULL" THEN GResult(heap, v, SIZE_MAX, Uninit)
  ELSE GResult(heap, v, GScan(heap[v.data].cells, v.size, element, 0), Uninit)

\* The buffer of a copy: as many slots as the original, the valid elements
\* copied.
GCopied(cells, size) ==
  [i \in 1..Len(cells) |-> IF i <= size THEN cells[i] ELSE Uninit]

\* gvector_copy that hands out a second handle record over the same buffer.
gvector_copy_Shallow(heap, v, a) ==
  IF v.ptr = "NULL" \/ a # "ok" THEN GResult(heap, GNULL, -1, Uninit)
  ELSE GResult(heap, v, 0, Uninit)

gvector_copy(heap, v, a) ==
  IF v.ptr = "NULL" \/ a # "ok" THEN GResult(heap, GNULL, -1, Uninit)
  ELSE GResult([heap EXCEPT ![GAlloc(heap)] =
                  [live |-> TRUE,
                   cells |-> GCopied(heap[v.data].cells, v.size)]],
               [v EXCEPT !.data = GAlloc(heap)], 0, Uninit)
\* ------------------------------------------- client of the generic container
\* The elements behind a handle, in order.
GContents(heap, v) ==
  IF v.ptr = "NULL" THEN <<>> ELSE SubSeq(heap[v.data].cells, 1, v.size)

\* Initial capacities and element sizes the client asks for.
GInitCaps == {0, 1, 2}
GElementSizes == {0, 4}
\* Indices the client passes: every index up to one past the largest size,
\* and the NotFound sentinel.
GIndices == 0..(MaxGSize + 1) \cup {SIZE_MAX}
\* The client that takes a copy starts from capacity 1, so that both
\* containers grow, and passes every index up to the largest size.
CopyInitCaps == {1}
CopyElementSizes == {4}
CopyIndices == 0..MaxCopySize

\* The record of a call: the function, the handle, the index and element
\* passed (0 when the function takes none), the value returned, the element
\* copied out, and saved, the contents the client read before a gvector_insert
\* that returned 0 (empty after any other call).
GCall(fn, h, index, element, r, saved) ==
  [fn |-> fn, h |-> h, index |-> index, element |-> element,
   ret |-> r.ret, out |-> r.out, saved |-> saved]

\* The call returned r for handle h.
GReturn(h, r, call) ==
  /\ gheap' = r.heap
  /\ gvec' = [gvec EXCEPT ![h] = r.vec]
  /\ gop' = call
  /\ UNCHANGED gvFrame

GCreate(initial_capacity, element_size, a) ==
  /\ gvec["vec"].ptr = "NULL"
  /\ GReturn("vec", gvector_create(gheap, initial_capacity, element_size, a),
             GCall("create", "vec", initial_capacity, element_size,
                   gvector_create(gheap, initial_capacity, element_size, a), <<>>))

GCopy(a) ==
  /\ gvec["copy"].ptr = "NULL"
  /\ GReturn("copy", gvector_copy(gheap, gvec["vec"], a),
             GCall("copy", "copy", 0, 0, gvector_copy(gheap, gvec["vec"], a), <<>>))

GDestroy(h) ==
  GReturn(h, gvector_destroy(gheap, gvec[h]),
          GCall("destroy", h, 0, 0, gvector_destroy(gheap, gvec[h]), <<>>))

GPush(h, element, limit) ==
  /\ gvec[h].size < limit
  /\ \E a \in IF GGrows(gvec[h]) THEN {"ok", "null"} ELSE {"ok"} :
       GReturn(h, gvector_push(gheap, gvec[h], element, a),
               GCall("push", h, 0, element,
                     gvector_push(gheap, gvec[h], element, a), <<>>))

GInsert(h, index, element, limit) ==
  /\ gvec[h].size < limit
  /\ \E a \in IF GGrows(gvec[h]) THEN {"ok", "null"} ELSE {"ok"} :
       GReturn(h, gvector_insert(gheap, gvec[h], index, element, a),
               GCall("insert", h, index, element,
                     gvector_insert(gheap, gvec[h], index, element, a),
                     IF gvector_insert(gheap, gvec[h], index, element, a).ret = 0
                       THEN GContents(gheap, gvec[h]) ELSE <<>>))

GPop(h) ==
  GReturn(h, gvector_pop(gheap, gvec[h]),
          GCall("pop", h, 0, 0, gvector_pop(gheap, gvec[h]), <<>>))

GGet(h, index) ==
  GReturn(h, gvector_get(gheap, gvec[h], index),
          GCall("get", h, index, 0, gvector_get(gheap, gvec[h], index), <<>>))

GSet(h, index, element) ==
  GReturn(h, gvector_set(gheap, gvec[h], index, element),
          GCall("set", h, index, element,
                gvector_set(gheap, gvec[h], index, element), <<>>))

GRemove(h, index) ==
  GReturn(h, gvector_remove(gheap, gvec[h], index),
          GCall("remove", h, index, 0, gvector_remove(gheap, gvec[h], index), <<>>))

GFind(h, element) ==
  GReturn(h, gvector_find(gheap, gvec[h], element),
          GCall("find", h, 0, element, gvector_find(gheap, gvec[h], element), <<>>))

\* The client of SpecGeneric holds one container and makes every call on it.
NextGeneric ==
  \/ \E c \in GInitCaps, es \in GElementSizes, a \in {"ok", "null"} : GCreate(c, es, a)
  \/ GDestroy("vec")
  \/ \E x \in Values : GPush("vec", x, MaxGSize)
  \/ \E i \in GIndices, x \in Values : GInsert("vec", i, x, MaxGSize)
  \/ GPop("vec")
  \/ \E i \in GIndices : GGet("vec", i)
  \/ \E i \in GIndices, x \in Values : GSet("vec", i, x)
  \/ \E i \in GIndices : GRemove("vec", i)
  \/ \E x \in Values : GFind("vec", x)

SpecGeneric == Init /\ [][NextGeneric]_vars

\* The client of SpecCopy takes a copy of its container and changes both.
NextCopy ==
  \/ \E c \in CopyInitCaps, es \in CopyElementSizes, a \in {"ok", "null"} : GCreate(c, es, a)
  \/ \E a \in {"ok", "null"} : GCopy(a)
  \/ \E h \in GHandles : GDestroy(h)
  \/ \E h \in GHandles, x \in Values : GPush(h, x, MaxCopySize)
  \/ \E h \in GHandles, i \in CopyIndices, x \in Values : GInsert(h, i, x, MaxCopySize)
  \/ \E h \in GHandles : GPop(h)
  \/ \E h \in GHandles, i \in CopyIndices, x \in Values : GSet(h, i, x)
  \/ \E h \in GHandles, i \in CopyIndices : GRemove(h, i)

SpecCopy == Init /\ [][NextCopy]_vars

(***************************************************************************)
(* Part 4: the calculator (apps/cli/calculator/src/calculator.c), for the  *)
(* commands whose function reports failure: fact, fib, pow and sqrt, and   *)
(* quit.  A number the user types is a double; the model holds it as the   *)
(* count of its halves, so 5 stands for 2.5, and a double that math_sqrt   *)
(* returns as the count of its SqrtScale-ths, rounded down.                *)
(***************************************************************************)
SqrtScale == 1000

\* Lines 131-161.
parse_operation(o) ==
  IF o \in {"+", "add"} THEN "OP_ADD"
  ELSE IF o \in {"-", "sub"} THEN "OP_SUB"
  ELSE IF o \in {"*", "mul"} THEN "OP_MUL"
  ELSE IF o \in {"/", "div"} THEN "OP_DIV"
  ELSE IF o \in {"%", "mod"} THEN "OP_MOD"
  ELSE IF o \in {"^", "pow"} THEN "OP_POW"
  ELSE IF o = "gcd" THEN "OP_GCD"
  ELSE IF o = "lcm" THEN "OP_LCM"
  ELSE IF o \in {"!", "fact"} THEN "OP_FACTORIAL"
  ELSE IF o = "fib" THEN "OP_FIBONACCI"
  ELSE IF o = "prime" THEN "OP_ISPRIME"
  ELSE IF o = "sqrt" THEN "OP_SQRT"
  ELSE IF o \in {"quit", "exit"} THEN "OP_QUIT"
  ELSE IF o \in {"help", "?"} THEN "OP_HELP"
  ELSE "OP_INVALID"

\* (int)a: the double a, given in halves, truncated toward zero.
IntCast(a) == IF a >= 0 THEN a \div 2 ELSE -((-a) \div 2)

\* math_sqrt (math_utils.c lines 186-203) of n halves: the sentinel -1 for
\* n < 0, 0 for 0, and otherwise the root Newton's iteration converges to.
math_sqrt(n) ==
  IF n < 0 THEN -SqrtScale
  ELSE IF n = 0 THEN 0
  ELSE CHOOSE r \in 0..(SqrtScale * (n \div 2 + 1)) :
         /\ 2 * r * r <= n * SqrtScale * SqrtScale
         /\ 2 * (r + 1) * (r + 1) > n * SqrtScale * SqrtScale

ResultLine(value) == [kind |-> "Result", lld |-> value]
ResultDouble(value) == [kind |-> "Result", f |-> value]
ErrorLine(text) == [kind |-> "Error", text |-> text]

\* Lines 218-220, 227-242 and 250-261: the line process_operation prints
\* once the function behind the command has returned result.  The cases of
\* the other arithmetic commands (lines 195-217, 221-226, 243-249) are not
\* modelled: the operator has no value for them.
process_operation(o, result) ==
  CASE o = "OP_POW" -> ResultLine(result)
    [] o = "OP_FACTORIAL" ->
         IF result = MinusOne
           THEN ErrorLine("Factorial undefined for negative numbers!")
           ELSE ResultLine(result)
    [] o = "OP_FIBONACCI" ->
         IF result = MinusOne
           THEN ErrorLine("Invalid input for Fibonacci!")
           ELSE ResultLine(result)
    [] o = "OP_SQRT" ->
         IF result = -SqrtScale
           THEN ErrorLine("Square root of negative number!")
           ELSE ResultDouble(result)
    [] o \in {"OP_QUIT", "OP_HELP", "OP_INVALID"} -> ErrorLine("Unknown operation!")

\* validate_operation_string (lines 84-108) on a word given as the sequence
\* of its characters, each the value of a char of the build (signed, so a
\* byte from 128 on is negative): -1 for a word with a per-cent sign (37)
\* in it, and for one with a character below 32 that is no tab (9).  The
\* test of lines 95-98 never fires: strcspn(op_str, "\0") is strlen(op_str).
validate_operation_string(op_str) ==
  IF \E i \in 1..Len(op_str) : op_str[i] = 37 THEN -1
  ELSE IF \E i \in 1..Len(op_str) : op_str[i] < 32 /\ op_str[i] # 9 THEN -1
  ELSE 0

\* The characters of the words of the model no operation is named by:
\* foo, %d, 100%, a%b, foo with a carriage return, and e with an acute
\* accent in UTF-8.
Spelling(o) ==
  CASE o = "foo" -> <<102, 111, 111>>
    [] o = "%d" -> <<37, 100>>
    [] o = "100%" -> <<49, 48, 48, 37>>
    [] o = "a%b" -> <<97, 37, 98>>
    [] o = "foo^M" -> <<102, 111, 111, 13>>
    [] o = "e'" -> <<-61, -87>>

\* main, lines 289-342: what the loop does with a line whose first word is
\* o and for which safe_parse_input returned parsed (-1 for a number that
\* is none, 0 for no word, else the count of words).  The line it prints
\* and goes on, Goodbye when it leaves the loop, NoLine when it goes to
\* process_operation.
CalculatorRead(o, parsed) ==
  IF parsed < 0
    THEN ErrorLine("Invalid input format. Type 'help' for instructions.")
  ELSE IF parsed < 1
    THEN ErrorLine("Invalid input. Type 'help' for instructions.")
  ELSE IF parse_operation(o) = "OP_QUIT" THEN [kind |-> "Goodbye"]
  ELSE IF parse_operation(o) = "OP_HELP" THEN [kind |-> "Help"]
  ELSE IF parse_operation(o) = "OP_INVALID"
    THEN IF validate_operation_string(Spelling(o)) = 0
           THEN ErrorLine("Unknown operation. Type 'help' for list.")
           ELSE ErrorLine("Invalid operation format. Type 'help' for list.")
  ELSE IF /\ parse_operation(o) \in {"OP_FACTORIAL", "OP_FIBONACCI", "OP_ISPRIME", "OP_SQRT"}
          /\ parsed < 2
    THEN ErrorLine("Missing operand. Single-operand operations require one number.")
  ELSE IF /\ parse_operation(o) \notin {"OP_FACTORIAL", "OP_FIBONACCI", "OP_ISPRIME", "OP_SQRT"}
          /\ parsed < 3
    THEN ErrorLine("Missing operand. Two-operand operations require two numbers.")
  ELSE NoLine

\* The call process_operation makes for the command.
CalculatorCalls(o, a, b) ==
  CASE o = "OP_POW" -> math_power(IntCast(a), IntCast(b))
    [] o = "OP_FACTORIAL" -> math_factorial(IntCast(a))
    [] o = "OP_FIBONACCI" -> math_fibonacci(IntCast(a))

\* The commands the user types, with the numbers in halves.
PowCommands == {"^", "pow"} \X {-2, 4, 5, 20} \X {-2, 0, 6, 7, 126, 128}
FactCommands == {"!", "fact"} \X {-2, 0, 5, 40, 42, 50} \X {0}
FibCommands == {"fib"} \X {-2, 0, 20, 184, 186} \X {0}
SqrtCommands == {"sqrt"} \X {-8, -1, 0, 1, 4, 8, 18} \X {0}

\* The lines the loop of main answers without a call of process_operation,
\* or leaves the loop on: the first word and what safe_parse_input returns.
\* <<"quit", -1>> is "quit x", <<"quit", 2>> is "quit 1".
OtherLines ==
  {<<"quit", -1>>, <<"fact", -1>>, <<"", 0>>, <<"help", 1>>, <<"?", 2>>,
   <<"foo", 1>>, <<"%d", 1>>, <<"100%", 2>>, <<"a%b", 1>>, <<"foo^M", 1>>,
   <<"e'", 3>>, <<"fact", 1>>, <<"sqrt", 1>>, <<"pow", 1>>,
   <<"pow", 2>>, <<"+", 2>>, <<"gcd", 1>>, <<"quit", 1>>, <<"exit", 1>>,
   <<"quit", 2>>}

\* The count of words of a command of the model with its operands.
WordsOf(o) == IF o \in {"^", "pow"} THEN 3 ELSE 2

\* main, lines 272-342: a pow, fact or fib command with its operands is
\* read and process_operation calls the function behind it (the calls of
\* the other operations are not modelled: the action is not enabled on
\* them).
CalculatorCommand(o, a, b) ==
  /\ calculator.pc = "prompt"
  /\ calc.fn = "none"
  /\ parse_operation(o) \in {"OP_POW", "OP_FACTORIAL", "OP_FIBONACCI"}
  /\ CalculatorRead(o, WordsOf(o)) = NoLine
  /\ calc' = CalculatorCalls(parse_operation(o), a, b)
  /\ calculator' = CalculatorAt("call", parse_operation(o), a, b, NoLine, -1)
  /\ UNCHANGED calculatorFrame

\* The function has returned: process_operation prints its line.
CalculatorPrint ==
  /\ calculator.pc = "call"
  /\ calc.pc = "done"
  /\ calculator' = CalculatorAt("prompt", calculator.op, calculator.a, calculator.b,
                                process_operation(calculator.op, calc.ret), -1)
  /\ calc' = Idle
  /\ UNCHANGED calculatorFrame

\* The sqrt command: math_sqrt is called and its line printed.
CalculatorSqrt(o, a, b) ==
  /\ calculator.pc = "prompt"
  /\ parse_operation(o) = "OP_SQRT"
  /\ CalculatorRead(o, WordsOf(o)) = NoLine
  /\ calculator' = CalculatorAt("prompt", parse_operation(o), a, b,
                                process_operation(parse_operation(o), math_sqrt(a)), -1)
  /\ UNCHANGED <<calc, calculatorFrame>>

\* Lines 303-306 and 346: quit or exit ends the loop and main returns 0.
CalculatorQuit(o, parsed) ==
  /\ calculator.pc = "prompt"
  /\ CalculatorRead(o, parsed) = [kind |-> "Goodbye"]
  /\ calculator' = CalculatorAt("exit", "OP_QUIT", 0, 0, [kind |-> "Goodbye"], 0)
  /\ UNCHANGED <<calc, calculatorFrame>>

\* Lines 288-342: a line main answers itself, and goes on.
CalculatorOther(o, parsed) ==
  /\ calculator.pc = "prompt"
  /\ CalculatorRead(o, parsed) \notin {NoLine, [kind |-> "Goodbye"]}
  /\ calculator' = CalculatorAt("prompt",
                                IF parsed < 1 THEN calculator.op ELSE parse_operation(o),
                                0, 0, CalculatorRead(o, parsed), -1)
  /\ UNCHANGED <<calc, calculatorFrame>>

\* Lines 276-278 and 346: fgets finds the input at its end, the loop is
\* left with nothing printed and main returns 0.
CalculatorEof ==
  /\ calculator.pc = "prompt"
  /\ calculator' = [calculator EXCEPT !.pc = "exit", !.line = NoLine, !.status = 0]
  /\ UNCHANGED <<calc, calculatorFrame>>

\* The function behind the command runs.
CalculatorStep ==
  /\ calculator.pc = "call"
  /\ calc.pc = "loop"
  /\ calc' = IF calc.fn = "math_power" THEN math_power_iteration(calc)
             ELSE IF calc.fn = "math_factorial" THEN math_factorial_iteration(calc)
             ELSE math_fibonacci_iteration(calc)
  /\ UNCHANGED <<vecVars, appVars>>

NextCalculator ==
  \/ \E c \in PowCommands \cup FactCommands \cup FibCommands :
       CalculatorCommand(c[1], c[2], c[3])
  \/ CalculatorStep
  \/ CalculatorPrint
  \/ \E c \in SqrtCommands : CalculatorSqrt(c[1], c[2], c[3])
  \/ \E c \in OtherLines : CalculatorQuit(c[1], c[2])
  \/ \E c \in OtherLines : CalculatorOther(c[1], c[2])
  \/ CalculatorEof

SpecCalculator == Init /\ [][NextCalculator]_vars

(***************************************************************************)
(* Part 5: tic-tac-toe (apps/games/tic_tac_toe/src/tic_tac_toe.c).  A      *)
(* Game is the record of the struct; an input line is the sequence of its  *)
(* characters.                                                             *)
(***************************************************************************)
\* Lines 61-64.
is_valid_move(g, row, col) ==
  /\ row >= 0 /\ row < BOARD_SIZE /\ col >= 0 /\ col < BOARD_SIZE
  /\ g.board[row][col] = EMPTY

\* Lines 69-77.
make_move(g, row, col, player) ==
  IF ~is_valid_move(g, row, col) THEN [ret |-> 0, game |-> g]
  ELSE [ret |-> 1,
        game |-> [g EXCEPT !.board[row][col] = player,
                           !.moves_made = g.moves_made + 1]]

\* Lines 82-87.
check_line(a, b, c) == IF a = b /\ b = c /\ a # EMPTY THEN a ELSE EMPTY

\* The lines in the order check_winner looks at them: rows, columns, the
\* two diagonals.
WinLines ==
  << <<<<0, 0>>, <<0, 1>>, <<0, 2>>>>, <<<<1, 0>>, <<1, 1>>, <<1, 2>>>>,
     <<<<2, 0>>, <<2, 1>>, <<2, 2>>>>, <<<<0, 0>>, <<1, 0>>, <<2, 0>>>>,
     <<<<0, 1>>, <<1, 1>>, <<2, 1>>>>, <<<<0, 2>>, <<1, 2>>, <<2, 2>>>>,
     <<<<0, 0>>, <<1, 1>>, <<2, 2>>>>, <<<<0, 2>>, <<1, 1>>, <<2, 0>>>> >>

LineOf(g, l) ==
  check_line(g.board[l[1][1]][l[1][2]], g.board[l[2][1]][l[2][2]],
             g.board[l[3][1]][l[3][2]])

\* Lines 92-120: the mark of the first line, from the k-th on, that one
\* player fills.
RECURSIVE CheckFrom(_, _)
CheckFrom(g, k) ==
  IF k > Len(WinLines) THEN EMPTY
  ELSE IF LineOf(g, WinLines[k]) # EMPTY THEN LineOf(g, WinLines[k])
  ELSE CheckFrom(g, k + 1)

check_winner(g) == CheckFrom(g, 1)

\* Lines 125-127.
is_board_full(g) == g.moves_made >= BOARD_SIZE * BOARD_SIZE

\* update_game_state that looks for the full board first.
update_game_state_TieFirst(g) ==
  IF is_board_full(g) THEN [g EXCEPT !.winner = "T", !.game_over = 1]
  ELSE IF check_winner(g) # EMPTY
    THEN [g EXCEPT !.winner = check_winner(g), !.game_over = 1]
  ELSE [g EXCEPT !.winner = EMPTY]

\* Lines 132-141.
update_game_state(g) ==
  IF check_winner(g) # EMPTY
    THEN [g EXCEPT !.winner = check_winner(g), !.game_over = 1]
  ELSE IF is_board_full(g) THEN [g EXCEPT !.winner = "T", !.game_over = 1]
  ELSE [g EXCEPT !.winner = EMPTY]

\* Lines 146-149.
switch_player(g) ==
  [g EXCEPT !.current_player =
     IF g.current_player = PLAYER_X THEN PLAYER_O ELSE PLAYER_X]

\* The character codes parse_move compares.
CharCode(c) ==
  CASE c = "0" -> 48 [] c = "1" -> 49 [] c = "2" -> 50 [] c = "3" -> 51
    [] c = "4" -> 52 [] c = "A" -> 65 [] c = "B" -> 66 [] c = "C" -> 67
    [] c = "D" -> 68 [] c = "a" -> 97 [] c = "b" -> 98 [] c = "c" -> 99
    [] c = "d" -> 100

toupper(c) == IF CharCode(c) >= 97 /\ CharCode(c) <= 122 THEN CharCode(c) - 32 ELSE CharCode(c)

\* Lines 154-174; row and col keep what the caller's variables held (0 in
\* the model) when the input is refused.
parse_move(input) ==
  IF Len(input) # 2 THEN [ret |-> 0, row |-> 0, col |-> 0]
  ELSE IF toupper(input[1]) < 65 \/ toupper(input[1]) > 67
    THEN [ret |-> 0, row |-> 0, col |-> 0]
  ELSE IF CharCode(input[2]) < 49 \/ CharCode(input[2]) > 51
    THEN [ret |-> 0, row |-> 0, col |-> 0]
  ELSE [ret |-> 1, row |-> toupper(input[1]) - 65, col |-> CharCode(input[2]) - 49]

\* ai_move returns [ret, row, col, game]: game is the Game once every trial
\* placement has been made and undone.
AiResult(value, row, col, g) == [ret |-> value, row |-> row, col |-> col, game |-> g]

\* Lines 181-194 (player O) and 197-210 (player X): the cells from the k-th
\* on, row by row, each empty one tried with the player's mark.
RECURSIVE AiTry(_, _, _)
AiTried(trial, player, k) ==
  IF check_winner(trial) = player
    THEN AiResult(1, k \div BOARD_SIZE, k % BOARD_SIZE,
                  [trial EXCEPT !.board[k \div BOARD_SIZE][k % BOARD_SIZE] = EMPTY])
    ELSE AiTry([trial EXCEPT !.board[k \div BOARD_SIZE][k % BOARD_SIZE] = EMPTY],
               player, k + 1)

AiTry(g, player, k) ==
  IF k = BOARD_SIZE * BOARD_SIZE THEN AiResult(0, 0, 0, g)
  ELSE IF is_valid_move(g, k \div BOARD_SIZE, k % BOARD_SIZE)
    THEN AiTried([g EXCEPT !.board[k \div BOARD_SIZE][k % BOARD_SIZE] = player],
                 player, k)
  ELSE AiTry(g, player, k + 1)

\* Line 220.
corners == <<<<0, 0>>, <<0, 2>>, <<2, 0>>, <<2, 2>>>>

\* Lines 221-238: the first free corner, else the first free cell.
RECURSIVE AiCorner(_, _)
RECURSIVE AiAny(_, _)
AiAny(g, k) ==
  IF k = BOARD_SIZE * BOARD_SIZE THEN AiResult(0, 0, 0, g)
  ELSE IF is_valid_move(g, k \div BOARD_SIZE, k % BOARD_SIZE)
    THEN AiResult(1, k \div BOARD_SIZE, k % BOARD_SIZE, g)
  ELSE AiAny(g, k + 1)

AiCorner(g, i) ==
  IF i > Len(corners) THEN AiAny(g, 0)
  ELSE IF is_valid_move(g, corners[i][1], corners[i][2])
    THEN AiResult(1, corners[i][1], corners[i][2], g)
  ELSE AiCorner(g, i + 1)

\* The choice with the corners looked at before the centre.
AiPick_CornerFirst(g) ==
  IF \E i \in 1..Len(corners) : is_valid_move(g, corners[i][1], corners[i][2])
    THEN AiCorner(g, 1)
  ELSE IF is_valid_move(g, 1, 1) THEN AiResult(1, 1, 1, g)
  ELSE AiAny(g, 0)

\* Lines 213-240.
AiPick(g) ==
  IF is_valid_move(g, 1, 1) THEN AiResult(1, 1, 1, g) ELSE AiCorner(g, 1)

\* Lines 197-240, b being what the search for a block returned.
AiBlocked(b) == IF b.ret = 1 THEN b ELSE AiPick(b.game)

\* Lines 181-240, w being what the search for a win returned.
AiWon(w) == IF w.ret = 1 THEN w ELSE AiBlocked(AiTry(w.game, PLAYER_X, 0))

\* Lines 179-241.
ai_move(g) == AiWon(AiTry(g, PLAYER_O, 0))


\* Lines 301-305 and 347-351, u being the Game update_game_state left.
TurnEnd(u) == IF u.game_over = 0 THEN switch_player(u) ELSE u

\* The input lines a player types: the nine cells, a lower-case row, and
\* lines parse_move refuses.
TttCells == {<<r, c>> : r \in {"A", "B", "C"}, c \in {"1", "2", "3"}}
TttInputs ==
  TttCells \cup {<<"b", "2">>, <<"D", "1">>, <<"d", "1">>, <<"A", "4">>,
                 <<"A", "0">>, <<"1", "A">>, <<"A">>, <<"A", "1", "1">>, <<>>}

\* main, lines 389-395: choice 1 or 2 of the menu.
TttStart(mode) ==
  /\ play.mode = "menu"
  /\ game' = init_game
  /\ play' = PlayAt(mode, "none")
  /\ UNCHANGED tttFrame

\* One turn of the loop of play_two_player (lines 323-352), or of the loop
\* of play_vs_ai when the human is to move (lines 266-290, 301-305).
TttLine(input) ==
  /\ play.mode \in {"ai", "two"}
  /\ game.game_over = 0
  /\ play.mode = "ai" => game.current_player = PLAYER_X
  /\ \E p \in {parse_move(input)} :
       IF p.ret = 0
         THEN game' = game /\ play' = PlayAt(play.mode, "rejected")
         ELSE \E m \in {make_move(game, p.row, p.col, game.current_player)} :
                IF m.ret = 0
                  THEN game' = m.game /\ play' = PlayAt(play.mode, "rejected")
                  ELSE /\ game' = TurnEnd(update_game_state(m.game))
                       /\ play' = PlayAt(play.mode, "accepted")
  /\ UNCHANGED tttFrame

\* One turn of the loop of play_vs_ai when the AI is to move (lines 266-269,
\* 291-305).
TttAi ==
  /\ play.mode = "ai"
  /\ game.game_over = 0
  /\ game.current_player # PLAYER_X
  /\ \E a \in {ai_move(game)} :
       IF a.ret = 1
         THEN game' = TurnEnd(update_game_state(
                        make_move(a.game, a.row, a.col, PLAYER_O).game))
         ELSE game' = TurnEnd(update_game_state(a.game))
  /\ play' = PlayAt(play.mode, "ai")
  /\ UNCHANGED tttFrame

\* fgets finds the input at its end (lines 274-276, 329-331): the loop is
\* left with the game unfinished.
TttEof ==
  /\ play.mode \in {"ai", "two"}
  /\ game.game_over = 0
  /\ play.mode = "ai" => game.current_player = PLAYER_X
  /\ play' = PlayAt("menu", "none")
  /\ UNCHANGED <<game, tttFrame>>

\* The loop ends with the game over (lines 266, 308-310, 323, 354-356).
TttOver ==
  /\ play.mode \in {"ai", "two"}
  /\ game.game_over = 1
  /\ play' = PlayAt("menu", "none")
  /\ UNCHANGED <<game, tttFrame>>

NextTicTacToe ==
  \/ \E mode \in {"ai", "two"} : TttStart(mode)
  \/ \E input \in TttInputs : TttLine(input)
  \/ TttAi
  \/ TttEof
  \/ TttOver

SpecTicTacToe == Init /\ [][NextTicTacToe]_vars

(***************************************************************************)
(* Part 6: the flapper (games/foss_flapper/src/main.c).                    *)
(***************************************************************************)
\* The bound of the score in the model.
MaxScore == 2

\* raylib's CheckCollisionRecs: the two rectangles overlap.
CheckCollisionRecs(rec1, rec2) ==
  /\ rec1.x < rec2.x + rec2.width /\ rec1.x + rec1.width > rec2.x
  /\ rec1.y < rec2.y + rec2.height /\ rec1.y + rec1.height > rec2.y

\* main.c lines 293-304.
CheckCollision(bird, pipe) ==
  \/ CheckCollisionRecs(Rectangle(bird.position.x - bird.radius,
                                  bird.position.y - bird.radius,
                                  bird.radius * 2, bird.radius * 2), pipe.top)
  \/ CheckCollisionRecs(Rectangle(bird.position.x - bird.radius,
                                  bird.position.y - bird.radius,
                                  bird.radius * 2, bird.radius * 2), pipe.bottom)

\* GameOver without the update of the high score.
GameOver_KeepsHighScore(g) == [g EXCEPT !.gameState = "GAME_OVER"]

\* Lines 205-208 and 231-234.
GameOver(g) ==
  [g EXCEPT !.gameState = "GAME_OVER",
            !.highScore = IF g.score > g.highScore THEN g.score ELSE g.highScore]

\* Lines 214-215: pipe i moved to the left.
PipeMoved(g, i) ==
  [g EXCEPT !.pipeManager.pipes[i].top.x = @ - PIPE_SPEED,
            !.pipeManager.pipes[i].bottom.x = @ - PIPE_SPEED]

\* Lines 218-227: pipe i put back at the right edge once it has left the
\* screen.
PipeReset(g, i, gapY) ==
  IF g.pipeManager.pipes[i].top.x + PIPE_WIDTH * Sub < 0
    THEN [g EXCEPT !.pipeManager.pipes[i].top.x = SCREEN_WIDTH * Sub,
                   !.pipeManager.pipes[i].bottom.x = SCREEN_WIDTH * Sub,
                   !.pipeManager.pipes[i].top.y = 0,
                   !.pipeManager.pipes[i].top.height = gapY * Sub,
                   !.pipeManager.pipes[i].bottom.y = (gapY + PIPE_GAP) * Sub,
                   !.pipeManager.pipes[i].bottom.height =
                     (SCREEN_HEIGHT - (gapY + PIPE_GAP)) * Sub,
                   !.pipeManager.pipes[i].scored = FALSE]
    ELSE g

\* Lines 238-242.
PipeScored(g, i) ==
  IF /\ ~g.pipeManager.pipes[i].scored
     /\ g.bird.position.x > g.pipeManager.pipes[i].top.x + PIPE_WIDTH * Sub
    THEN [g EXCEPT !.score = @ + 1, !.pipeManager.pipes[i].scored = TRUE]
    ELSE g

\* Lines 212-243: the loop from pipe i on.
RECURSIVE UpdatePipes(_, _, _)
PipeChecked(g, i, gaps) ==
  IF CheckCollision(g.bird, g.pipeManager.pipes[i]) THEN GameOver(g)
  ELSE UpdatePipes(PipeScored(g, i), i + 1, gaps)

UpdatePipes(g, i, gaps) ==
  IF i >= g.pipeManager.pipeCount THEN g
  ELSE PipeChecked(PipeReset(PipeMoved(g, i), i, gaps[i]), i, gaps)

\* Lines 197-198: gravity for one frame.
BirdMoved(g) ==
  [g EXCEPT !.bird.velocity.y = @ + GRAVITY \div Sub,
            !.bird.position.y = @ + (g.bird.velocity.y + GRAVITY \div Sub)]

\* Lines 204-243, the bird having moved.
BirdChecked(g, gaps) ==
  IF \/ g.bird.position.y <= g.bird.radius
     \/ g.bird.position.y >= SCREEN_HEIGHT * Sub - g.bird.radius
    THEN GameOver(g)
    ELSE UpdatePipes(g, 0, gaps)

\* Lines 191-194.
BirdJumped(g, pressed) ==
  IF pressed THEN [g EXCEPT !.bird.velocity.y = JUMP_FORCE] ELSE g

\* Lines 169-244; pressed is IsMouseButtonPressed(MOUSE_LEFT_BUTTON) ||
\* IsKeyPressed(KEY_SPACE), gaps the random values of the frame.
UpdateGame(g, pressed, gaps) ==
  IF g.gameState = "READY"
    THEN IF pressed
           THEN [g EXCEPT !.gameState = "PLAYING", !.bird.velocity.y = JUMP_FORCE]
           ELSE g
  ELSE IF g.gameState = "GAME_OVER"
    THEN IF pressed THEN InitGame(g.highScore, gaps) ELSE g
  ELSE BirdChecked(BirdMoved(BirdJumped(g, pressed)), gaps)

\* main, line 102.
FlapperStart(gaps) ==
  /\ flapper.pc = "main"
  /\ flapper' = FlapperAt("loop", InitGame(flapper.game.highScore, gaps), FALSE)
  /\ UNCHANGED flapperFrame

\* One turn of the loop of main (lines 105-109).
FlapperFrame(pressed, gaps) ==
  /\ flapper.pc = "loop"
  /\ \E g \in {UpdateGame(flapper.game, pressed, gaps)} :
       /\ g.score <= MaxScore
       /\ flapper' = FlapperAt("loop", g, pressed)
  /\ UNCHANGED flapperFrame

NextFlapper ==
  \E gaps \in [0..3 -> GapYs] :
    \/ FlapperStart(gaps)
    \/ \E pressed \in BOOLEAN : FlapperFrame(pressed, gaps)

SpecFlapper == Init /\ [][NextFlapper]_vars

(***************************************************************************)
(* Part 7: the number-guessing game                                        *)
(* (apps/games/number_guessing/src/number_guessing.c).                     *)
(***************************************************************************)
\* The greatest guess typed in the model.
MaxGuess == 52

\* Lines 24, 34-49: the range and the attempts of a difficulty.
EASY == 1
MEDIUM == 2
HARD == 3
CUSTOM == 4
DifficultyRange(difficulty) ==
  CASE difficulty = EASY -> [min_range |-> 1, max_range |-> 50, max_attempts |-> 10]
    [] difficulty = MEDIUM -> [min_range |-> 1, max_range |-> 100, max_attempts |-> 8]
    [] difficulty = HARD -> [min_range |-> 1, max_range |-> 200, max_attempts |-> 6]

\* Lines 29-57, r being what rand() returns.
ng_init_game(difficulty, r) ==
  GuessGame(DifficultyRange(difficulty).min_range
              + (r % (DifficultyRange(difficulty).max_range
                        - DifficultyRange(difficulty).min_range + 1)),
            DifficultyRange(difficulty).min_range,
            DifficultyRange(difficulty).max_range,
            DifficultyRange(difficulty).max_attempts, 0, 0, difficulty)

\* Lines 62-74.
set_custom_difficulty(min_range, max_range, max_attempts, r) ==
  GuessGame(min_range + (r % (max_range - min_range + 1)), min_range, max_range,
            max_attempts, 0, 0, CUSTOM)

\* Lines 119-121.
is_valid_guess(g, guess) == guess >= g.min_range /\ guess <= g.max_range

\* process_guess that counts a guess before it looks at its range.
process_guess_CountsFirst(g, guess) ==
  IF ~is_valid_guess(g, guess)
    THEN [ret |-> 0, game |-> [g EXCEPT !.attempts_used = @ + 1]]
  ELSE IF guess = g.secret_number
    THEN [ret |-> 1, game |-> [g EXCEPT !.attempts_used = @ + 1, !.game_won = 1]]
  ELSE [ret |-> 0, game |-> [g EXCEPT !.attempts_used = @ + 1]]

\* Lines 126-146.
process_guess(g, guess) ==
  IF ~is_valid_guess(g, guess) THEN [ret |-> 0, game |-> g]
  ELSE IF guess = g.secret_number
    THEN [ret |-> 1, game |-> [g EXCEPT !.attempts_used = @ + 1, !.game_won = 1]]
  ELSE [ret |-> 0, game |-> [g EXCEPT !.attempts_used = @ + 1]]

\* The values of rand() in the model, and the custom games typed into
\* setup_custom_game: minimum, maximum, attempts.
RandValues == {0, 7, 49, 50, 123, 199, 200}
CustomSetups == {<<5, 6, 1>>, <<-3, 3, 2>>, <<3, 3, 2>>, <<4, 2, 1>>, <<1, 9, 0>>}

\* main, lines 328-335: a difficulty from 1 to 3.
GuessingStart(difficulty, r) ==
  /\ guessing.pc = "menu"
  /\ guessing' = GuessingAt("loop", ng_init_game(difficulty, r), FALSE, 0, 0)
  /\ UNCHANGED guessingFrame

\* setup_custom_game, lines 228-258, with three numbers typed in.
GuessingCustom(setup, r) ==
  /\ guessing.pc = "menu"
  /\ IF setup[1] >= setup[2] \/ setup[3] < 1
       THEN guessing' = GuessingAt("menu", guessing.game, FALSE, 0, 0)
       ELSE guessing' = GuessingAt("loop",
                          set_custom_difficulty(setup[1], setup[2], setup[3], r),
                          FALSE, 0, 0)
  /\ UNCHANGED guessingFrame

\* One turn of the loop of play_game with a number typed in (lines 188-207).
GuessingGuess(guess) ==
  /\ guessing.pc = "loop"
  /\ guessing.game.attempts_used < guessing.game.max_attempts
  /\ guessing.game.game_won = 0
  /\ \E p \in {process_guess(guessing.game, guess)} :
       guessing' = GuessingAt(IF p.ret # 0 THEN "stats" ELSE "loop", p.game,
                              TRUE, guess, p.ret)
  /\ UNCHANGED guessingFrame

\* One turn of the loop with something else than a number typed in (lines
\* 192-198).
GuessingNoNumber ==
  /\ guessing.pc = "loop"
  /\ guessing.game.attempts_used < guessing.game.max_attempts
  /\ guessing.game.game_won = 0
  /\ guessing' = GuessingAt("loop", guessing.game, FALSE, 0, 0)
  /\ UNCHANGED guessingFrame

\* The test of the loop fails (line 188).
GuessingLoopEnd ==
  /\ guessing.pc = "loop"
  /\ ~(guessing.game.attempts_used < guessing.game.max_attempts
        /\ guessing.game.game_won = 0)
  /\ guessing' = [guessing EXCEPT !.pc = "stats"]
  /\ UNCHANGED guessingFrame

\* display_statistics and the return to the menu (lines 209, 335, 342).
GuessingStats ==
  /\ guessing.pc = "stats"
  /\ guessing' = [guessing EXCEPT !.pc = "menu"]
  /\ UNCHANGED guessingFrame

NextGuessing ==
  \/ \E difficulty \in {EASY, MEDIUM, HARD}, r \in RandValues :
       GuessingStart(difficulty, r)
  \/ \E setup \in CustomSetups, r \in RandValues : GuessingCustom(setup, r)
  \/ \E guess \in -4..MaxGuess : GuessingGuess(guess)
  \/ GuessingNoNumber
  \/ GuessingLoopEnd
  \/ GuessingStats

SpecGuessing == Init /\ [][NextGuessing]_vars

\* ------------------------------------------------------------------ claims
Live == vec.ptr # "NULL"
\* The elements of the vector, in index order.
Contents(v) == SubSeq(v.data, 1, v.size)

\* C1: in every state reachable from vector_create by pushes, pops, gets and
\* sets, failed allocations included, size <= capacity.
C1_SizeWithinCapacity == Live => vec.size <= vec.capacity

\* A push on a full vector was refused by the allocator.
C1_Witness ==
  /\ Live /\ op = "push" /\ ret = -1
  /\ vec.size = vec.capacity /\ vec.size > 0

\* C2: vector_size is the number of pushes that returned 0 minus the number
\* of pops that returned 0; a get, a set, a failed push and a failed pop
\* leave size as it was.
C2_SizeIsBalance ==
  /\ [](vector_size(vec) = balance)
  /\ [][(pc' = "run" /\ (op' \in {"get", "set"} \/ (op' \in {"push", "pop"} /\ ret' = -1)))
          => vector_size(vec') = vector_size(vec)]_vars

\* Three elements are held after a pop succeeded and a later push failed.
C2_Witness ==
  /\ Live /\ op = "push" /\ ret = -1 /\ ~onlyPush
  /\ balance = 3 /\ vec.size = 3

\* C3: the vector is the reference sequence: same length, vector_get(i)
\* returns the i-th reference element for every i < size, and vector_pop
\* returns the last one; this holds across growth and shrink reallocations.
C3_RefinesSequence ==
  Live =>
    /\ vec.size = Len(ref)
    /\ \A i \in 0..(vec.size - 1) :
         LET r == vector_get(vec, i, TRUE, out, FALSE, Uninit)
         IN  r.ret = 0 /\ r.out = ref[i + 1]
    /\ vec.size > 0 =>
         \A a \in AllocOutcomes :
           LET r == vector_pop(vec, TRUE, out, a, FALSE, Uninit)
           IN  r.ret = 0 /\ r.out = ref[Len(ref)]

\* A shrink from capacity 12 to 6 has just kept two different elements.
C3_Witness ==
  /\ Live /\ op = "pop" /\ ret = 0
  /\ initial = 12 /\ vec.capacity = 6
  /\ ref = <<1, 2>> /\ out = 2

\* C4: vector_pop on an empty vector returns -1 and leaves size, capacity,
\* the stored contents and the caller's output variable as they were.
C4_PopOnEmpty ==
  [][(Live /\ vec.size = 0 /\ op' = "pop" /\ pc' = "run")
       => (ret' = -1 /\ vec' = vec /\ out' = out)]_vars

\* A pop was refused on an empty vector whose capacity exceeds the default
\* and whose caller holds a value from an earlier pop.
C4_Witness ==
  /\ Live /\ op = "pop" /\ ret = -1 /\ vec.size = 0
  /\ vec.capacity > DEFAULT_CAPACITY /\ out \in Values

\* C5: for every i < size and every v, vector_set(i, v) returns 0, a
\* following vector_get(i) returns v, and every other slot, size and
\* capacity are as before.
C5_SetThenGet ==
  Live =>
    \A i \in 0..(vec.size - 1) : \A v \in Values :
      LET s == vector_set(vec, i, v, FALSE)
          r == vector_get(s.vec, i, TRUE, out, FALSE, Uninit)
      IN  /\ s.ret = 0
          /\ r.ret = 0 /\ r.out = v
          /\ s.vec.size = vec.size /\ s.vec.capacity = vec.capacity
          /\ Len(s.vec.data) = Len(vec.data)
          /\ \A j \in 1..Len(vec.data) : j # i + 1 => s.vec.data[j] = vec.data[j]

\* The middle one of three elements has just been set.
C5_Witness ==
  /\ Live /\ op = "set" /\ ret = 0
  /\ vec.size = 3 /\ Contents(vec) = <<1, 2, 1>> /\ ref = <<1, 2, 1>>

\* C6: vector_get and vector_set with index >= size, slots vacated by pop
\* included, return -1 and leave size, capacity, contents and the caller's
\* output variable as they were.
C6_IndexOutOfRange ==
  /\ [](Live =>
          \A index \in 0..MaxIndex : index >= vec.size =>
            /\ \A value \in BOOLEAN :
                 vector_get(vec, index, value, out, FALSE, Uninit)
                   = [ret |-> -1, out |-> out, crash |-> FALSE]
            /\ \A v \in Values :
                 vector_set(vec, index, v, FALSE)
                   = [vec |-> vec, ret |-> -1, crash |-> FALSE])
  /\ [][(Live /\ pc' = "run" /\ op' \in {"get", "set"} /\ ret' = -1)
          => (vec' = vec /\ out' = out)]_vars

\* A set was refused on a vector whose first free slot still holds a value
\* that a pop vacated.
C6_Witness ==
  /\ Live /\ op = "set" /\ ret = -1
  /\ vec.size < Len(vec.data) /\ vec.data[vec.size + 1] \in Values
  /\ out \in Values

\* C7: vector_push changes capacity only when size = capacity, and then to
\* exactly twice the old capacity; with spare room capacity stays.  A vector
\* created with capacity 2 that received three pushes a, b, c has capacity 4,
\* size 3 and contents [a, b, c].
C7_GrowthByDoubling ==
  /\ []((Live /\ initial = 2 /\ onlyPush /\ balance = 3)
          => (vec.capacity = 4 /\ vec.size = 3 /\ Contents(vec) = ref))
  /\ [][(Live /\ pc' = "run" /\ op' = "push")
          => /\ vec'.capacity # vec.capacity
                  => (vec.size = vec.capacity /\ vec'.capacity = 2 * vec.capacity)
             /\ vec.size < vec.capacity => vec'.capacity = vec.capacity]_vars

\* create(2) followed by exactly the pushes 1, 2, 1.
C7_Witness ==
  /\ Live /\ op = "push" /\ ret = 0
  /\ initial = 2 /\ onlyPush /\ balance = 3 /\ ref = <<1, 2, 1>>

\* C8: a pop that shrinks leaves capacity >= the default minimum of 8.
C8_ShrinkFloor ==
  [][(Live /\ pc' = "run" /\ op' = "pop" /\ vec'.capacity < vec.capacity)
       => vec'.capacity >= 8]_vars

\* C9: a successful pop halves capacity exactly when, after the decrement,
\* size < capacity / 4 and capacity > 8 and the reallocation succeeds, and
\* otherwise leaves it; capacity changes only by a push doubling it or a
\* pop halving it.
C9_ShrinkRule ==
  /\ []((Live /\ vec.size > 0) =>
          \A a \in AllocOutcomes : \A value \in BOOLEAN :
            LET r   == vector_pop(vec, value, out, a, FALSE, Uninit)
                due == vec.size - 1 < vec.capacity \div 4 /\ vec.capacity > 8
            IN  /\ r.ret = 0
                /\ r.vec.capacity = IF due /\ a = "ok" THEN vec.capacity \div 2
                                                      ELSE vec.capacity)
  /\ [][(Live /\ pc' = "run" /\ vec'.capacity # vec.capacity)
          => \/ op' = "push" /\ vec'.capacity = 2 * vec.capacity
             \/ /\ op' = "pop" /\ ret' = 0
                /\ vec'.capacity = vec.capacity \div 2
                /\ vec'.size < vec.capacity \div 4 /\ vec.capacity > 8]_vars

\* A pop has just halved a capacity of 9.
C9_Witness ==
  /\ Live /\ op = "pop" /\ ret = 0
  /\ initial = 9 /\ vec.capacity = 4 /\ vec.size = 1

\* C10: when capacity * 2 or a byte count (of create or of a growing push)
\* is not representable in size_t the call fails and leaves the vector as
\* it was, so the block always has room for `capacity` elements.
C10_NoSilentWrap ==
  /\ [](Live => Len(vec.data) >= vec.capacity)
  /\ [][(pc' = "run" /\ op' = "create" /\ ~Live
          /\ (IF initial' = 0 THEN 8 ELSE initial') * SizeofInt >= SIZE_MOD)
          => vec' = NULL]_vars
  /\ [][(Live /\ pc' = "run" /\ op' = "push" /\ vec.size >= vec.capacity
          /\ vec.capacity * 2 * SizeofInt >= SIZE_MOD)
          => (ret' = -1 /\ vec' = vec)]_vars

\* C11: if the allocator refuses the reallocation while vector_push grows a
\* full vector, push returns -1 and size, capacity and every stored element
\* are as before the call; a later push with a willing allocator appends.
C11_PushFailureIsAtomic ==
  /\ [][(Live /\ pc' = "run" /\ op' = "push" /\ ret' = -1) => vec' = vec]_vars
  /\ []((Live /\ vec.size = vec.capacity) =>
          \A v \in Values :
            vector_push(vec, v, "null", FALSE)
              = [vec |-> vec, ret |-> -1, crash |-> FALSE])
  /\ []((Live /\ op = "push" /\ ret = -1) =>
          \A v \in Values :
            LET r == vector_push(vec, v, "ok", FALSE)
            IN  /\ r.ret = 0
                /\ r.vec.size = vec.size + 1
                /\ Contents(r.vec) = Append(Contents(vec), v))

\* A push was refused on the full vector [1, 2] created with capacity 2.
C11_Witness ==
  /\ Live /\ op = "push" /\ ret = -1
  /\ initial = 2 /\ vec.capacity = 2 /\ Contents(vec) = <<1, 2>>

\* C12: vector_destroy on a nil pointer is a no-op, and vector_destroy on a
\* pointer that was already destroyed is a no-op too: nothing is released
\* twice or read after its release.
C12_DestroyIdempotent ==
  [][/\ (vec.ptr = "NULL" /\ op' = "destroy") => (vec' = vec /\ pc' = "run")
     /\ (vec.ptr = "freed" /\ (op' = "destroy" \/ pc' = "crashed"))
          => (vec' = vec /\ pc' = "run")]_vars

\* C13: vector_create(0) gives size 0 and the default capacity 8, so the
\* first push succeeds whatever the allocator would answer; vector_create(c)
\* with c # 0 gives size 0 and capacity c.
C13_CreateCapacity ==
  (Live /\ op = "create") =>
    /\ vec.size = 0
    /\ vec.capacity = IF initial = 0 THEN 8 ELSE initial
    /\ Len(vec.data) = vec.capacity
    /\ initial = 0 =>
         \A v \in Values : \A a \in AllocOutcomes :
           LET r == vector_push(vec, v, a, FALSE)
           IN  r.ret = 0 /\ r.vec.size = 1 /\ r.vec.capacity = 8

\* The first push on a vector created with capacity 0 has succeeded.
C13_Witness ==
  /\ Live /\ op = "push" /\ ret = 0
  /\ initial = 0 /\ onlyPush /\ balance = 1 /\ vec.capacity = 8

\* C14: for every pair of long long operands, all four sign combinations,
\* zero, LLONG_MIN, LLONG_MAX and -1 included, safe_multiply_long_long
\* returns -1 exactly when the mathematical product lies outside
\* [LLONG_MIN, LLONG_MAX], otherwise returns 0 with the exact product, and
\* never evaluates an overflowing machine product or division.
C14_SafeMultiply ==
  calc.fn = "safe_multiply_long_long" =>
    LET product == BigMul(calc.a, calc.b)
    IN  /\ calc.ret \in {0, -1}
        /\ calc.ret = -1 <=> (BigLt(product, LLONG_MIN) \/ BigGt(product, LLONG_MAX))
        /\ calc.ret = 0 => calc.result = product
        /\ ~calc.ub

\* -2^31 * 2^32 has returned LLONG_MIN, and was not taken for an overflow.
C14_Witness ==
  /\ calc.fn = "safe_multiply_long_long"
  /\ calc.a = BigOfInt(-2147483647 - 1)
  /\ calc.b = BigMul(BigAdd(BigOfInt(2147483647), BigOne), BigOfInt(2))
  /\ calc.ret = 0 /\ calc.result = LLONG_MIN

\* n! as the product n * (n - 1) * ... * 1, for n >= 0.
RECURSIVE RefFactorial(_)
RefFactorial(n) == IF n = 0 THEN BigOne ELSE BigMul(BigOfInt(n), RefFactorial(n - 1))

\* C15: math_factorial(n) is -1 for every n < 0 and every n > 20 and is
\* exactly n! for every n in 0..20, with factorial(0) = factorial(1) = 1 and
\* factorial(20) = 2432902008176640000; within 0..20 the overflow check
\* never fires and the result is never the sentinel -1.
C15_Factorial ==
  (calc.fn = "math_factorial" /\ calc.pc = "done") =>
    /\ ~calc.ub
    /\ (calc.n < 0 \/ calc.n > 20) => calc.ret = BigOfInt(-1)
    /\ calc.n \in 0..20 =>
         /\ calc.ret = RefFactorial(calc.n)
         /\ ~calc.overflow
         /\ calc.ret # BigOfInt(-1)
         /\ InLongLong(calc.ret)
    /\ calc.n \in {0, 1} => calc.ret = BigOfInt(1)
    /\ calc.n = 20 => calc.ret = [neg |-> FALSE, mag |-> <<0, 7664, 81, 2902, 243>>]

\* math_factorial(20) has returned 2432902008176640000.
C15_Witness ==
  /\ calc.fn = "math_factorial" /\ calc.pc = "done" /\ calc.n = 20
  /\ calc.ret = [neg |-> FALSE, mag |-> <<0, 7664, 81, 2902, 243>>]

RECURSIVE RefFibonacciAdvance(_, _)
\* <<F(k + n), F(k + n + 1)>> from p = <<F(k), F(k + 1)>>, by n steps of
\* F(j + 2) = F(j) + F(j + 1).
RefFibonacciAdvance(p, n) ==
  IF n = 0 THEN p
  ELSE IF n = 1 THEN <<p[2], BigAdd(p[1], p[2])>>
  ELSE CHOOSE r \in { RefFibonacciAdvance(q, n - n \div 2) :
                         q \in {RefFibonacciAdvance(p, n \div 2)} } : TRUE

\* F(n) for n >= 0, from F(0) = 0 and F(1) = 1.
RefFibonacci(n) == RefFibonacciAdvance(<<BigZero, BigOne>>, n)[1]

\* C16: math_fibonacci(n) is -1 for every n < 0 and every n > 92 and is the
\* n-th Fibonacci number for every n in 0..92; no addition overflows within
\* 0..92, so fibonacci(92) succeeds, and F(93) is not representable.
C16_Fibonacci ==
  (calc.fn = "math_fibonacci" /\ calc.pc = "done") =>
    /\ ~calc.ub
    /\ (calc.n < 0 \/ calc.n > 92) => calc.ret = BigOfInt(-1)
    /\ calc.n \in 0..92 =>
         /\ calc.ret = RefFibonacci(calc.n)
         /\ ~calc.overflow
         /\ calc.ret # BigOfInt(-1)
    /\ calc.n = 92 => calc.ret = [neg |-> FALSE, mag |-> <<6429, 4634, 8047, 113, 754>>]
    /\ calc.n = 93 => BigGt(RefFibonacci(93), LLONG_MAX)

\* math_fibonacci(92) has returned 7540113804746346429.
C16_Witness ==
  /\ calc.fn = "math_fibonacci" /\ calc.pc = "done" /\ calc.n = 92
  /\ calc.ret = [neg |-> FALSE, mag |-> <<6429, 4634, 8047, 113, 754>>]
  /\ ~calc.overflow

\* The only element of a one-element set.
Only(S) == CHOOSE x \in S : TRUE

\* base^exp as the product of exp factors base, for exp >= 0 and
\* |base| >= 2.  A product that has left the long long range is not
\* multiplied further: its magnitude is at least 2^63 and every later
\* product has a larger one, so it stands for a value out of range.
RECURSIVE RefPower(_, _)
RefPower(base, exp) ==
  IF exp = 0 THEN BigOne
  ELSE Only({ IF InLongLong(q) THEN BigMul(BigOfInt(base), q) ELSE q :
              q \in {RefPower(base, exp - 1)} })

\* base^exp for a base of -1, 0 or 1 and exp >= 0.
PowerOfUnit(base, exp) ==
  IF exp = 0 THEN BigOne
  ELSE IF base = -1 THEN (IF exp % 2 = 0 THEN BigOne ELSE BigOfInt(-1))
  ELSE BigOfInt(base)

\* C17: math_power(base, exp) is 0 for exp < 0; for exp >= 0 it is base^exp
\* whenever that is representable in 64 bits (0^0 = 1, (-1)^exp by parity
\* and values equal to LLONG_MIN included) and -1 whenever it is not, as for
\* every exp > 63 with |base| >= 2; no overflow is reported for a
\* representable result, so -1 means failure unless base^exp is -1.
C17_Power ==
  (calc.fn = "math_power" /\ calc.pc = "done") =>
    /\ ~calc.ub
    /\ calc.exp < 0 => calc.ret = BigZero
    /\ (calc.exp >= 0 /\ calc.base \in {-1, 0, 1}) =>
         /\ calc.ret = PowerOfUnit(calc.base, calc.exp)
         /\ ~calc.overflow
    /\ (calc.exp > 63 /\ calc.base \notin {-1, 0, 1}) => calc.ret = BigOfInt(-1)
    /\ (calc.exp \in 0..63 /\ calc.base \notin {-1, 0, 1}) =>
         \A v \in {RefPower(calc.base, calc.exp)} :
           IF BigLe(LLONG_MIN, v) /\ BigLe(v, LLONG_MAX)
             THEN calc.ret = v /\ ~calc.overflow
             ELSE calc.ret = BigOfInt(-1)

\* math_power(-2, 63) has returned LLONG_MIN.
C17_Witness ==
  /\ calc.fn = "math_power" /\ calc.pc = "done"
  /\ calc.base = -2 /\ calc.exp = 63
  /\ calc.ret = LLONG_MIN /\ ~calc.overflow

\* The greatest common divisor of |a| and |b| by its definition: the largest
\* d that divides both, |n| when the other operand is 0, and 0 for (0, 0);
\* for a and b above INT_MIN.
RefGcd(a, b) ==
  LET x == IF a < 0 THEN -a ELSE a
      y == IF b < 0 THEN -b ELSE b
      common == {d \in 1..(IF x < y THEN x ELSE y) : x % d = 0 /\ y % d = 0}
  IN  IF x = 0 THEN y
      ELSE IF y = 0 THEN x
      ELSE CHOOSE d \in common : \A e \in common : e <= d

\* C18: for every pair of int operands, negative ones and INT_MIN included,
\* math_gcd returns, without an undefined operation, a non-negative value
\* that is the greatest common divisor of |a| and |b|; so gcd(0, n) =
\* gcd(n, 0) = |n|, gcd(0, 0) = 0 and gcd(a, b) = gcd(b, a).
C18_Gcd ==
  (calc.fn = "math_gcd" /\ calc.pc \in {"done", "crashed"}) =>
    /\ calc.pc = "done"
    /\ ~calc.ub
    /\ calc.ret >= 0
    /\ calc.ret = RefGcd(calc.a, calc.b)
    /\ calc.ret = RefGcd(calc.b, calc.a)

\* The least common multiple of a, b > 0 by its definition: the least
\* positive multiple k * l of the larger operand l that the smaller operand
\* s divides, found through the remainder of l (s at most 46340, so that
\* k * (l % s) is an int).  The value is exact, not an int.
RefLcm(a, b) ==
  LET s == IF a < b THEN a ELSE b
      l == IF a < b THEN b ELSE a
      ks == {k \in 1..s : (k * (l % s)) % s = 0}
      least == CHOOSE k \in ks : \A j \in ks : k <= j
  IN  BigMul(BigOfInt(least), BigOfInt(l))

\* C19: math_lcm(a, b) is 0 when a = 0 or b = 0, without any division; for
\* positive a and b whose least common multiple is an int it is exactly that
\* least common multiple, computed as (a / gcd) * b with no undefined
\* operation and with a / gcd not above the result.
C19_Lcm ==
  (calc.fn = "math_lcm" /\ calc.pc \in {"done", "crashed"}) =>
    /\ (calc.a = 0 \/ calc.b = 0) =>
         calc.pc = "done" /\ calc.ret = 0 /\ ~calc.ub
    /\ (calc.a > 0 /\ calc.b > 0) =>
         \A m \in {RefLcm(calc.a, calc.b)} :
           BigLe(m, BigOfInt(2147483647)) =>
             /\ calc.pc = "done"
             /\ ~calc.ub
             /\ BigOfInt(calc.ret) = m
             /\ calc.gcd > 0
             /\ calc.quot * calc.gcd = calc.a
             /\ calc.quot <= calc.ret

\* math_lcm(65536, 32768) has returned 65536, though 65536 * 32768 is no int.
C19_Witness ==
  /\ calc.fn = "math_lcm" /\ calc.pc = "done"
  /\ calc.a = 65536 /\ calc.b = 32768
  /\ calc.ret = 65536 /\ calc.quot = 2

\* n is a prime number: n > 1 and no d with 1 < d and d * d <= n divides n
\* (for an int n such a d is at most 46340).
RefIsPrime(n) ==
  /\ n > 1
  /\ \A d \in 2..(IF n - 1 < 46340 THEN n - 1 ELSE 46340) : d * d <= n => n % d # 0

\* C20: for every int n up to INT_MAX math_is_prime returns, with i * i
\* evaluated in int, 1 if and only if n is prime; it returns 0 for n <= 1.
C20_IsPrime ==
  (calc.fn = "math_is_prime" /\ calc.pc \in {"done", "crashed"}) =>
    /\ calc.pc = "done"
    /\ ~calc.ub
    /\ calc.ret \in {0, 1}
    /\ calc.ret = 1 <=> RefIsPrime(calc.n)
    /\ calc.n <= 1 => calc.ret = 0

\* The sequence s with x put at index i (counted from 0).
InsertAt(s, i, x) == SubSeq(s, 1, i) \o <<x>> \o SubSeq(s, i + 1, Len(s))

\* The elements of the container the client created.
GElements == GContents(gheap, gvec["vec"])

\* C21: gvector_insert(i, x) succeeds for every i of 0..size unless the
\* growth it needs is refused, and then puts x at index i, moves the former
\* elements i..size-1 one slot to the right in their order and adds 1 to
\* size; it fails for every other i and on refused growth, changing nothing.
\* gvector_get(i) right after the insert yields x; gvector_remove(i) right
\* after it yields x and restores the contents and size the container had
\* before the insert.  gvector_find of a value that gvector_remove has just
\* taken from the container, and that is no longer in it, returns SIZE_MAX,
\* and every call that gets SIZE_MAX as index fails.
C21_InsertRemove ==
  /\ [][gop'.fn = "insert" =>
          IF gop'.index <= Len(GElements)
             /\ (gop'.ret = 0 \/ gvec["vec"].size # gvec["vec"].capacity)
            THEN /\ gop'.ret = 0
                 /\ GElements' = InsertAt(GElements, gop'.index, gop'.element)
                 /\ gvec'["vec"].size = gvec["vec"].size + 1
                 /\ gop'.saved = GElements
            ELSE /\ gop'.ret = -1
                 /\ GElements' = GElements
                 /\ gvec'["vec"] = gvec["vec"]]_vars
  /\ [][gop.fn = "insert" /\ gop.ret = 0 /\ gop'.fn = "get"
        /\ gop'.index = gop.index =>
          gop'.ret = 0 /\ gop'.out = gop.element]_vars
  /\ [][gop.fn = "insert" /\ gop.ret = 0 /\ gop'.fn = "remove"
        /\ gop'.index = gop.index =>
          /\ gop'.ret = 0
          /\ gop'.out = gop.element
          /\ GElements' = gop.saved
          /\ gvec'["vec"].size = Len(gop.saved)]_vars
  /\ [][gop.fn = "remove" /\ gop.ret = 0 /\ gop'.fn = "find"
        /\ gop'.element = gop.out
        /\ ~(\E i \in 1..Len(GElements) : GElements[i] = gop.out) =>
          gop'.ret = SIZE_MAX]_vars
  /\ [](gop.fn \in {"get", "set", "remove"} /\ gop.index = SIZE_MAX =>
          gop.ret = -1)
  /\ [](gop.fn = "find" /\ gop.ret # SIZE_MAX =>
          gop.ret < Len(GElements) /\ GElements[gop.ret + 1] = gop.element)

\* gvector_insert(1, 2) into the full container <<1, 1>> of capacity 2 has
\* grown it and put 2 between the two elements.
C21_Witness ==
  /\ gop.fn = "insert" /\ gop.ret = 0 /\ gop.index = 1 /\ gop.element = 2
  /\ gop.saved = <<1, 1>>
  /\ GElements = <<1, 2, 1>>
  /\ gvec["vec"].capacity = 4

\* C22: a gvector_copy that returns a container returns one with the size,
\* capacity, element size and elements of the original, over a buffer of
\* its own; and no gvector_push, gvector_pop, gvector_set, gvector_insert,
\* gvector_remove or gvector_destroy on one of the two handles changes the
\* GenericVector or any slot of the buffer behind the other handle.
C22_CopyIndependent ==
  /\ [](gop.fn = "copy" /\ gop.ret = 0 =>
          /\ gvec["copy"].ptr # "NULL"
          /\ gvec["copy"].data # gvec["vec"].data
          /\ gvec["copy"].size = gvec["vec"].size
          /\ gvec["copy"].capacity = gvec["vec"].capacity
          /\ gvec["copy"].element_size = gvec["vec"].element_size
          /\ GContents(gheap, gvec["copy"]) = GContents(gheap, gvec["vec"]))
  /\ [][gop'.fn \in {"push", "pop", "set", "insert", "remove", "destroy"} =>
          \A o \in GHandles \ {gop'.h} :
            /\ gvec'[o] = gvec[o]
            /\ gvec[o].ptr # "NULL" =>
                 gheap'[gvec[o].data] = gheap[gvec[o].data]]_vars

\* After gvector_set(copy, 0, 2) the copy holds <<2, 2>> and the original
\* still holds <<1, 2>>.
C22_Witness ==
  /\ gop.fn = "set" /\ gop.h = "copy" /\ gop.ret = 0
  /\ GContents(gheap, gvec["vec"]) = <<1, 2>>
  /\ GContents(gheap, gvec["copy"]) = <<2, 2>>

\* Whether the function behind the command o reports failure for the
\* operands a and b (in halves): math_factorial outside 0..20, math_fibonacci
\* outside 0..92, math_sqrt below 0, and math_power for an exponent above 63
\* or a power that 64 bits cannot hold (bases -1, 0 and 1 and exponents up
\* to 0 never fail).
CommandFails(o, a, b) ==
  IF o = "OP_FACTORIAL" THEN IntCast(a) < 0 \/ IntCast(a) > 20
  ELSE IF o = "OP_FIBONACCI" THEN IntCast(a) < 0 \/ IntCast(a) > 92
  ELSE IF o = "OP_SQRT" THEN a < 0
  ELSE /\ o = "OP_POW"
       /\ IntCast(b) > 0
       /\ IntCast(a) \notin {-1, 0, 1}
       /\ \/ IntCast(b) > 63
          \/ ~InLongLong(RefPower(IntCast(a), IntCast(b)))

\* The Error lines of process_operation for fact, fib and sqrt.
ProcessErrors ==
  {"Factorial undefined for negative numbers!", "Invalid input for Fibonacci!",
   "Square root of negative number!"}

\* C23: the line the calculator prints for a fact, fib, sqrt or pow command
\* is an Error line when the function behind the command reported failure
\* and a Result line when it did not, and after quit the program has exited
\* with status 0.
C23_ErrorsTranslated ==
  /\ (/\ calculator.pc = "prompt"
      /\ calculator.op \in {"OP_POW", "OP_FACTORIAL", "OP_FIBONACCI", "OP_SQRT"}
      /\ \/ calculator.line.kind = "Result"
         \/ /\ calculator.line.kind = "Error"
            /\ calculator.line.text \in ProcessErrors) =>
       calculator.line.kind =
         IF CommandFails(calculator.op, calculator.a, calculator.b)
           THEN "Error" ELSE "Result"
  /\ calculator.pc = "exit" => calculator.status = 0

\* C24: the vector_pop that follows a vector_push that changed capacity
\* leaves capacity alone, whatever the allocator would do; and the
\* vector_push that follows a vector_pop that changed capacity succeeds
\* without changing capacity.  So of a push and a pop made one after the
\* other, in either order, at most one changes capacity.
C24_Hysteresis ==
  /\ [][(op' = "push" /\ ret' = 0 /\ vec'.capacity # vec.capacity) =>
          \A a \in AllocOutcomes, value \in BOOLEAN, g \in Indeterminate :
            vector_pop(vec', value, out', a, FALSE, g).vec.capacity
              = vec'.capacity]_vars
  /\ [][(op' = "pop" /\ ret' = 0 /\ vec'.capacity # vec.capacity) =>
          \A a \in AllocOutcomes, value \in Values :
            /\ vector_push(vec', value, a, FALSE).ret = 0
            /\ vector_push(vec', value, a, FALSE).vec.capacity
                 = vec'.capacity]_vars

\* A push on the full vector of capacity 5 has doubled it to 10, above
\* DEFAULT_CAPACITY, so that the next pop tests 5 < 10 / 4.
C24_Witness ==
  /\ op = "push" /\ ret = 0 /\ initial = 5
  /\ vec.size = 6 /\ vec.capacity = 10

\* C25: a vector_pop that has to shrink (the size it leaves is below a
\* quarter of a capacity above DEFAULT_CAPACITY) and whose reallocation
\* fails, so that capacity stays, returns 0, yields the departing element
\* when the caller asked for it, and leaves the vector exactly as a pop
\* without a shrink attempt does: size one less, capacity and block
\* unchanged.  Every later call starts from that vector.
C25_ShrinkFailureTolerated ==
  [][(op' = "pop" /\ pc' = "run" /\ vec.ptr = "heap" /\ vec.size > 0
      /\ vec.size - 1 < vec.capacity \div 4
      /\ vec.capacity > DEFAULT_CAPACITY
      /\ vec'.capacity = vec.capacity) =>
        /\ ret' = 0
        /\ out' \in {out, vec.data[vec.size]}
        /\ vec' = [vec EXCEPT !.size = vec.size - 1]]_vars

\* The pop that left <<1, 2>> in a vector of capacity 12 tried to shrink
\* it to 6 and the reallocation failed.
C25_Witness ==
  /\ op = "pop" /\ ret = 0 /\ initial = 12
  /\ vec.capacity = 12 /\ vec.size = 2
  /\ Contents(vec) = <<1, 2>>
  /\ out = 1

\* C26: for every pair of long long operands safe_add_long_long returns -1
\* exactly when the mathematical sum lies outside [LLONG_MIN, LLONG_MAX],
\* otherwise returns 0 with the exact sum, and neither LLONG_MAX - b,
\* LLONG_MIN - b nor a + b overflows where the call evaluates it.
C26_SafeAdd ==
  calc.fn = "safe_add_long_long" =>
    LET sum == BigAdd(calc.a, calc.b)
    IN  /\ calc.ret \in {0, -1}
        /\ calc.ret = -1 <=> (BigLt(sum, LLONG_MIN) \/ BigGt(sum, LLONG_MAX))
        /\ calc.ret = 0 => calc.result = sum
        /\ calc.ret = -1 => calc.result = LLUninit
        /\ ~calc.ub

\* LLONG_MIN + (-1) was reported as an overflow, without evaluating an
\* overflowing subtraction.
C26_Witness ==
  /\ calc.fn = "safe_add_long_long"
  /\ calc.a = LLONG_MIN /\ calc.b = BigOfInt(-1)
  /\ calc.ret = -1 /\ ~calc.ub


\* ---- C27 and C28: tic-tac-toe ----
BoardCells == (0..(BOARD_SIZE - 1)) \X (0..(BOARD_SIZE - 1))
MarkAt(g, c) == g.board[c[1]][c[2]]
FreeCells(g) == {c \in BoardCells : MarkAt(g, c) = EMPTY}
LineSets == {{WinLines[k][i] : i \in 1..3} : k \in 1..Len(WinLines)}
\* The player holds all three cells of some line.
HasLine(g, player) == \E l \in LineSets : \A c \in l : MarkAt(g, c) = player
\* A mark of the player on the free cell c would complete a line.
Completes(g, c, player) ==
  /\ MarkAt(g, c) = EMPTY
  /\ \E l \in LineSets : c \in l /\ \A d \in l \ {c} : MarkAt(g, d) = player
\* The cells the stated priority allows on a board with a free cell.
Preferred(g) ==
  IF \E c \in BoardCells : Completes(g, c, PLAYER_O)
    THEN {c \in BoardCells : Completes(g, c, PLAYER_O)}
  ELSE IF \E c \in BoardCells : Completes(g, c, PLAYER_X)
    THEN {c \in BoardCells : Completes(g, c, PLAYER_X)}
  ELSE IF <<1, 1>> \in FreeCells(g) THEN {<<1, 1>>}
  ELSE IF FreeCells(g) \cap {<<0, 0>>, <<0, 2>>, <<2, 0>>, <<2, 2>>} # {}
    THEN FreeCells(g) \cap {<<0, 0>>, <<0, 2>>, <<2, 0>>, <<2, 2>>}
  ELSE FreeCells(g)
\* What the claim says of the answer a of ai_move on the Game g.
AiAsStated(g, a) ==
  /\ a.game = g
  /\ a.ret = 0 => FreeCells(g) = {}
  /\ FreeCells(g) # {} => a.ret = 1 /\ <<a.row, a.col>> \in Preferred(g)

\* C27 as the spec states it: on every board with a free cell ai_move
\* returns 1 with a cell chosen by the priority win, block, centre, corner,
\* any; it returns 0 only on a full board; the board is the same after the
\* call.  It fails on a board that already holds a line of X.
C27_AiPriorityEveryBoard == AiAsStated(game, ai_move(game))

\* C27, amended: on every board with a free cell and no completed line,
\* which is every board play_vs_ai calls it on, ai_move returns 1 with a
\* cell chosen by the priority win, block, centre, corner, any; it returns
\* 0 only on a full board; the board is the same after the call.
C27_AiPriority ==
  (~HasLine(game, PLAYER_X) /\ ~HasLine(game, PLAYER_O))
    => AiAsStated(game, ai_move(game))

\* The AI is to move on a board with the centre taken where it can neither
\* win nor block, and takes a corner.
C27_Witness ==
  /\ play.mode = "ai" /\ game.game_over = 0 /\ game.current_player = PLAYER_O
  /\ game.moves_made >= 3
  /\ \A c \in BoardCells :
       ~Completes(game, c, PLAYER_O) /\ ~Completes(game, c, PLAYER_X)
  /\ <<1, 1>> \notin FreeCells(game)
  /\ ai_move(game).ret = 1
  /\ <<ai_move(game).row, ai_move(game).col>> \in {<<0, 2>>, <<2, 0>>, <<2, 2>>}


MarkCount(g, mark) == Cardinality({c \in BoardCells : MarkAt(g, c) = mark})
\* What the claim says of a Game in play.
GameAsStated(g) ==
  /\ g.moves_made = Cardinality(BoardCells \ FreeCells(g))
  /\ MarkCount(g, PLAYER_X) - MarkCount(g, PLAYER_O) \in {0, 1}
  /\ g.game_over = 1 => g.moves_made <= BOARD_SIZE * BOARD_SIZE
  /\ g.moves_made = BOARD_SIZE * BOARD_SIZE => g.game_over = 1
  /\ g.game_over = 1 <=> g.winner # EMPTY
  /\ g.winner = PLAYER_X <=> HasLine(g, PLAYER_X)
  /\ g.winner = PLAYER_O <=> HasLine(g, PLAYER_O)
  /\ g.winner = "T" => FreeCells(g) = {} /\ ~HasLine(g, PLAYER_X) /\ ~HasLine(g, PLAYER_O)
  /\ g.winner \in {EMPTY, PLAYER_X, PLAYER_O, "T"}

\* C28: in two-player and vs-AI play moves_made is the number of marked
\* cells, the marks alternate from X on (#X - #O is 0 or 1), a rejected move
\* changes nothing, the game is over after at most 9 accepted moves, the
\* winner is X or O exactly when that player has completed a line, and it is
\* 'T' only when the board is full with no completed line.
C28_GameState ==
  /\ [](GameAsStated(game))
  /\ [][play'.last = "rejected" => game' = game]_vars
  /\ [][play'.last \in {"accepted", "ai"} =>
          /\ game'.moves_made = game.moves_made + 1
          /\ \E c \in FreeCells(game) :
               /\ MarkAt(game', c) = game.current_player
               /\ \A d \in BoardCells \ {c} : MarkAt(game', d) = MarkAt(game, d)]_vars

\* The ninth move of a two-player game was accepted and completed a line
\* for X.
C28_Witness ==
  /\ game.moves_made = 9 /\ game.winner = PLAYER_X /\ game.game_over = 1
  /\ play.mode = "two" /\ play.last = "accepted"


\* ---- C29: the flapper ----
FlapperPipes == 0..3
FPipe(g, i) == g.pipeManager.pipes[i]
\* The pipes a step from g to h scores: their flag goes from false to true.
NewlyScored(g, h) == {i \in FlapperPipes : ~FPipe(g, i).scored /\ FPipe(h, i).scored}
\* Pipe i is recycled by a step to h: it is back at the right edge.
Recycled(g, h, i) ==
  /\ FPipe(h, i).top.x = SCREEN_WIDTH * Sub
  /\ FPipe(g, i).top.x - PIPE_SPEED + PIPE_WIDTH * Sub < 0
\* The bird of g is at the top or bottom bound, or collides with a pipe.
BirdDown(g) ==
  \/ g.bird.position.y <= g.bird.radius
  \/ g.bird.position.y >= SCREEN_HEIGHT * Sub - g.bird.radius
  \/ \E i \in FlapperPipes :
       \E r \in {FPipe(g, i).top, FPipe(g, i).bottom} :
         /\ g.bird.position.x - g.bird.radius < r.x + r.width
         /\ g.bird.position.x + g.bird.radius > r.x
         /\ g.bird.position.y - g.bird.radius < r.y + r.height
         /\ g.bird.position.y + g.bird.radius > r.y
\* What the claim says of a frame from g to h with the input pressed.
FrameAsStated(g, h, pressed) ==
  /\ g.gameState # h.gameState =>
       \/ g.gameState = "READY" /\ h.gameState = "PLAYING" /\ pressed
       \/ g.gameState = "PLAYING" /\ h.gameState = "GAME_OVER" /\ BirdDown(h)
       \/ /\ g.gameState = "GAME_OVER" /\ h.gameState = "READY" /\ pressed
          /\ h.score = 0 /\ h.highScore = g.highScore
  /\ h.score # g.score =>
       \/ g.gameState = "PLAYING"
       \/ g.gameState = "GAME_OVER" /\ h.gameState = "READY" /\ h.score = 0
  /\ g.gameState = "PLAYING" =>
       /\ h.score = g.score + Cardinality(NewlyScored(g, h))
       /\ \A i \in FlapperPipes :
            FPipe(g, i).scored /\ ~FPipe(h, i).scored => Recycled(g, h, i)
  /\ h.highScore >= g.highScore

\* C29: the only state changes are READY -> PLAYING on a click or space,
\* PLAYING -> GAME_OVER with the bird at a bound or in a pipe, and
\* GAME_OVER -> READY on a click or space through InitGame; the score
\* changes only while PLAYING, by 1 for each pipe whose scored flag is set,
\* and the flag is cleared only when the pipe is recycled; in GAME_OVER
\* highScore >= score; highScore never decreases and is kept across a
\* restart, which resets the score to 0.
C29_FlapperStates ==
  /\ [](flapper.game.gameState = "GAME_OVER" =>
          flapper.game.highScore >= flapper.game.score)
  /\ [][flapper.pc = "loop" =>
          FrameAsStated(flapper.game, flapper'.game, flapper'.pressed)]_vars

\* A second round is over with one pipe passed, and the high score of 2 of
\* an earlier round is kept.
C29_Witness ==
  /\ flapper.game.gameState = "GAME_OVER"
  /\ flapper.game.score = 1 /\ flapper.game.highScore = 2


\* ---- C30: the number-guessing round ----
\* The loop of play_game goes on with the Game g.
RoundOpen(g) == g.attempts_used < g.max_attempts /\ g.game_won = 0
\* What the claim says of the guess x that takes the Game from g to h.
GuessAsStated(g, h, x) ==
  IF x < g.min_range \/ x > g.max_range THEN h = g
  ELSE /\ h.attempts_used = g.attempts_used + 1
       /\ h.game_won = 1 <=> x = g.secret_number
       /\ h.game_won \in {0, 1}
       /\ h = [g EXCEPT !.attempts_used = h.attempts_used, !.game_won = h.game_won]

\* C30: in a round 0 <= attempts_used <= max_attempts; a guess outside
\* [min_range, max_range] is not counted and changes nothing; a guess in
\* the range adds exactly 1 to attempts_used; game_won becomes 1 only on a
\* guess equal to secret_number; and the round ends exactly when game_won is
\* set or attempts_used has reached max_attempts.
C30_GuessingRound ==
  /\ [](guessing.pc # "menu" =>
          /\ 0 <= guessing.game.attempts_used
          /\ guessing.game.attempts_used <= guessing.game.max_attempts
          /\ guessing.game.game_won = 1 =>
               guessing.called /\ guessing.guess = guessing.game.secret_number
          /\ guessing.pc = "stats" =>
               \/ guessing.game.game_won = 1
               \/ guessing.game.attempts_used = guessing.game.max_attempts)
  /\ [][guessing.pc = "loop" /\ RoundOpen(guessing.game) =>
          /\ guessing'.called =>
               GuessAsStated(guessing.game, guessing'.game, guessing'.guess)
          /\ ~guessing'.called => guessing'.game = guessing.game
          /\ guessing'.pc = "stats" <=> ~RoundOpen(guessing'.game) /\ guessing'.game.game_won = 1
          /\ guessing'.pc \in {"loop", "stats"}]_vars
  /\ [][guessing.pc = "loop" /\ ~RoundOpen(guessing.game) =>
          guessing'.pc = "stats" /\ guessing'.game = guessing.game]_vars

\* An easy round is won with its tenth and last attempt.
C30_Witness ==
  /\ guessing.pc = "stats" /\ guessing.game.difficulty = EASY
  /\ guessing.game.game_won = 1 /\ guessing.game.attempts_used = 10
  /\ guessing.game.max_attempts = 10

====
